---------------------------- MODULE Spec2Model ----------------------------
(***************************************************************************)
(* DeepseekDiscordAI: the rate-limited completion client                   *)
(* (bot/openrouter_client.py) and the conversation store it is fed from    *)
(* (bot/chat_manager.py, used by bot/discord_client.py).                   *)
(*                                                                         *)
(* Callers are asyncio tasks on one event loop: code between two awaits    *)
(* that really suspend runs atomically, so every action below is the code  *)
(* from one suspension point (asyncio.sleep, the HTTP call) to the next.   *)
(* Time is an integer clock; a sleeper wakes at or after its due time.     *)
(* Texts are sequences of symbols, " " being the whitespace symbol.        *)
(***************************************************************************)
EXTENDS Integers, Sequences, FiniteSets, TLC

\* ------------------------------------------------------------- bounds
MaxTime == 3
MaxBudget == 2
Window == 2
MaxRetriesBound == 2
MaxDelayBase == 1
MaxHistory == 2
MaxAppends == 3
MaxLiveRetries == 1
MaxChunks == 3
MaxInvalid == 1

\* The concurrent callers of generate_response.
Tasks == {1, 2}

\* ------------------------------------------------------------ state
VARIABLES
    config,         \* BotConfig: the fields the client reads
    now,            \* time.time()
    request_times,  \* OpenRouterClient.request_times
    pc,             \* per task: where its generate_response call stands
    retry_count,    \* per task: the retry_count argument of the running frame
    wake_at,        \* per task: when its asyncio.sleep is due
    response,       \* per task: what its HTTP call ended with, until the frame resumes
    result,         \* per task: the value generate_response returned
    messages,       \* per task: the list object passed to generate_response
    terminal,       \* per task: how the call ended (history)
    attempts,       \* per task: network attempts made so far (history)
    max_history,    \* ChatManager: the capacity of a conversation log
    channel_histories, \* ChatManager: the logs of the channel keys
    user_histories, \* ChatManager: the logs of the user keys
    appended,       \* per key: the turns appended since the key was last unseen (history)
    returned,       \* the last direct call of a store operation and what it returned
    aliased,        \* per task: the key whose log object its list is, if it is one
    conv,           \* per task: the conversation turn its handler serves
    session,        \* OpenRouterClient.session: "none", "open" or "closed"
    held,           \* per task: the responses its call has entered and not released
    closed,         \* DiscordBot.close(): "running", "closing" (in close) or "closed"
    command_prefix, \* config.command_prefix and bot.command_prefix
    chat_channel_id, \* config.chat_channel_id ("none": None)
    channels,       \* the channel_id stored for the guild in the channels collection
    message,        \* per task: the message its on_message handles
    game,           \* per task: the mini-game its command runs
    outbox          \* per task: the reply its command sends, chunk by chunk

clientVars == <<config, now, request_times, pc, retry_count, wake_at, response, result,
                messages, session>>
historyVars == <<terminal, attempts, held>>
storeVars == <<max_history, channel_histories, user_histories, appended, returned,
               aliased, conv>>
botVars == <<closed, command_prefix, chat_channel_id, channels, message>>
funVars == <<game, outbox>>

\* ------------------------------------------------------------ texts
IsSpace(c) == c = " "

RECURSIVE lstrip(_)
lstrip(s) == IF s # <<>> /\ IsSpace(Head(s)) THEN lstrip(Tail(s)) ELSE s

RECURSIVE rstrip(_)
rstrip(s) ==
    IF s # <<>> /\ IsSpace(s[Len(s)]) THEN rstrip(SubSeq(s, 1, Len(s) - 1)) ELSE s

\* str.strip()
strip(s) == rstrip(lstrip(s))

PyNone == [none |-> TRUE, text |-> <<>>]
PyStr(s) == [none |-> FALSE, text |-> s]

RateLimitedMessage == <<"Sorry, I'm currently rate limited. Please try again later.">>
TimedOutMessage == <<"Sorry, the request timed out. Please try again.">>
StatusText(status) == IF status = 429 THEN "429" ELSE IF status = 500 THEN "500" ELSE "200"
StatusErrorMessage(status) == <<"Sorry, I encountered an error: ", StatusText(status)>>
UnexpectedErrorMessage(exc) == <<"Sorry, I encountered an unexpected error: ", exc>>

\* ------------------------------------------------- the remote's answers
ReplyTexts == { <<" ", "hello", " ">>, <<" ">>, RateLimitedMessage }

Responses ==
    [status : {200}, body : {"content"}, text : ReplyTexts]
    \cup [status : {200},
          body : {"no_choices", "empty_choices", "no_message", "undecodable"},
          text : {<<>>}]
    \cup [status : {429, 500}, body : {"-"}, text : {<<>>}]
    \cup [status : {500}, body : {"unreadable"}, text : {<<>>}]  \* response.text() raises
    \cup [status : {0}, body : {"TimeoutError", "ClientError"}, text : {<<>>}]


\* ------------------------------------------------ the request messages
\* {"role": "system", "content": self.config.system_prompt}
DefaultSystemTurn == [role |-> "system", content |-> <<"prompt">>]

\* WithSystemPrompt without the test of the first element.
WithSystemPromptAlways(msgs) == <<DefaultSystemTurn>> \o msgs

\* if not messages or messages[0].get("role") != "system": messages.insert(0, ...)
WithSystemPrompt(msgs) ==
    IF msgs = <<>> \/ msgs[1].role # "system"
    THEN <<DefaultSystemTurn>> \o msgs
    ELSE msgs

\* messages of ChatCommands.ask_command
AskMessages(question) == <<DefaultSystemTurn, [role |-> "user", content |-> question]>>

\* The context of a conversation after its first user turn.
FirstTurnContext == <<[role |-> "user", content |-> <<"hi">>]>>

\* The lists a caller passes: no turn, a context without system turn, the
\* messages of ask_command, a list with a system turn of its own at its head,
\* and lists with a system turn further down.
Inputs ==
    { <<>>,
      <<[role |-> "user", content |-> <<"hi">>]>>,
      AskMessages(<<"hi">>),
      <<[role |-> "system", content |-> <<"hi">>], [role |-> "user", content |-> <<"yo">>]>>,
      <<[role |-> "user", content |-> <<"hi">>], [role |-> "system", content |-> <<"yo">>]>>,
      <<[role |-> "assistant", content |-> <<"yo">>], [role |-> "user", content |-> <<"hi">>]>> }

\* ------------------------------------------------ the conversation store
Ids == {"id1", "id2"}
\* self.user.id
BotId == "bot"
Roles == {"system", "user", "assistant"}
Contents == {<<"hi">>}
Turns == [role : Roles, content : Contents]
\* A conversation key: a channel id or a user id.
Keys == ({"channel"} \X Ids) \cup ({"user"} \X (Ids \cup {BotId}))
NoKey == <<"none", "none">>

\* A dictionary without keys.
NoLogs == [id \in {} |-> <<>>]

\* The dictionary that holds the logs of the keys of kind k[1].
Histories(k) == IF k[1] = "channel" THEN channel_histories ELSE user_histories

\* context(key): the log of the key, empty for an unseen key.
Context(k) == IF k[2] \in DOMAIN Histories(k) THEN Histories(k)[k[2]] ELSE <<>>

\* A log of bounded capacity that drops its newest turn when full.
PushDropNewest(log, turn, capacity) ==
    IF capacity = 0 THEN <<>>
    ELSE IF Len(log) >= capacity THEN log
    ELSE Append(log, turn)

\* A log of bounded capacity takes a turn: the oldest one leaves when it is full.
Push(log, turn, capacity) ==
    IF capacity = 0 THEN <<>>
    ELSE IF Len(log) >= capacity
         THEN Append(SubSeq(log, Len(log) - capacity + 2, Len(log)), turn)
         ELSE Append(log, turn)

\* The dictionary d with the log of id set to log.
WithLog(d, id, log) ==
    [i \in DOMAIN d \cup {id} |-> IF i = id THEN log ELSE d[i]]

\* No store operation called yet.
NoCall == [op |-> "none", key |-> NoKey, value |-> <<>>]

\* The turn a handler serves: a message of author in channel, a DM or not.
Convs == [stage : {"asked"}, dm : BOOLEAN, channel : Ids, author : Ids]
NoConv == [stage |-> "none", dm |-> FALSE, channel |-> "id1", author |-> "id1"]

\* WithoutLog with the log emptied and its key kept.
WithoutLogEmptied(d, id) == IF id \in DOMAIN d THEN WithLog(d, id, <<>>) ELSE d

\* The dictionary d without id.
WithoutLog(d, id) == [i \in DOMAIN d \ {id} |-> d[i]]

\* -------------------------------------------------- the rate limiter
RECURSIVE MinOf(_)
\* min(self.request_times)
MinOf(times) ==
    IF Len(times) = 1 THEN times[1]
    ELSE LET m == MinOf(Tail(times)) IN IF times[1] < m THEN times[1] ELSE m

\* _check_rate_limit: the entries it keeps
PruneLedger(times, t) ==
    SelectSeq(times, LAMBDA x : t - x < config.rate_limit_window)

\* WithinBudget with <= for <.
WithinBudgetInclusive(times) == Len(times) <= config.rate_limit_requests

\* _check_rate_limit: its answer, on the pruned ledger
WithinBudget(times) == Len(times) < config.rate_limit_requests

\* WaitTime with the wait counted from the newest entry instead of the oldest.
WaitTimeFromNewest(times, t) ==
    IF times = <<>> THEN 0
    ELSE LET wait_time == config.rate_limit_window - (t - times[Len(times)])
         IN  IF wait_time > 0 THEN wait_time ELSE 0

\* _wait_for_rate_limit: the time it asks to sleep (0: it returns at once)
WaitTime(times, t) ==
    IF times = <<>> THEN 0
    ELSE LET wait_time == config.rate_limit_window - (t - MinOf(times))
         IN  IF wait_time > 0 THEN wait_time ELSE 0

\* RecordRequest that records nothing.
RecordNothing(times, t) == times

\* _record_request
RecordRequest(times, t) == Append(times, t)

\* BackoffDelay with 2 * retry_count for 2 ** retry_count.
BackoffDelayLinear(n) == config.retry_delay_base * (2 * n)

\* retry_delay_base * (2 ** retry_count)
BackoffDelay(n) == config.retry_delay_base * (2 ^ n)

\* generate_response from its entry to its first suspension: the budget check,
\* then either the sleep of _wait_for_rate_limit or the record and the HTTP call.
BeginAttempt(times, t) ==
    LET pruned == PruneLedger(times, t)
        wait == IF WithinBudget(pruned) THEN 0 ELSE WaitTime(pruned, t)
    IN  IF wait > 0
        THEN [pc |-> "rate_wait", times |-> pruned, wake_at |-> t + wait]
        ELSE [pc |-> "in_flight", times |-> RecordRequest(pruned, t), wake_at |-> 0]

\* Recurse with the retry going straight to the record and the HTTP call.
RecurseWithoutCheck(times, t) ==
    [pc |-> "in_flight", times |-> RecordRequest(times, t), wake_at |-> 0]

\* return await self.generate_response(messages, retry_count + 1)
Recurse(times, t) == BeginAttempt(times, t)

\* NextRetryCount with the count passed on as it is.
NextRetryCountSame(n) == n

\* The retry_count of the frame a retry calls: retry_count + 1
NextRetryCount(n) == n + 1

\* ------------------------------------------------ the response branches
\* The exception the try block raises on an answer ("none": it raises nothing).
Raises(resp) ==
    CASE resp.body = "TimeoutError" -> "TimeoutError"
      [] resp.body = "ClientError" -> "ClientError"
      [] resp.status \notin {200, 429} /\ resp.body = "unreadable" -> "ClientError"
      [] resp.status = 200 /\ resp.body = "undecodable" -> "ContentTypeError"
      [] resp.status = 200 /\ resp.body = "no_message" -> "KeyError"
      [] OTHER -> "none"

\* Subclasses of Exception among the above (all of them).
ExceptionClasses == {"TimeoutError", "ClientError", "ContentTypeError", "KeyError"}

\* HandlerFor with the generic clause narrowed to transport errors.
HandlerForClientErrors(exc) ==
    IF exc = "TimeoutError" THEN "timeout"
    ELSE IF exc \in {"ClientError", "ContentTypeError"} THEN "generic"
    ELSE "propagate"

\* Which except clause takes the exception.
HandlerFor(exc) ==
    IF exc = "TimeoutError" THEN "timeout"
    ELSE IF exc \in ExceptionClasses THEN "generic"
    ELSE "propagate"

\* The ways a frame goes on after its HTTP call.
Return(value, term) == [kind |-> "return", value |-> value, term |-> term, delay |-> 0]
RetryAfter(delay) == [kind |-> "retry_after", value |-> PyNone, term |-> "none", delay |-> delay]
RetryNow == [kind |-> "retry_now", value |-> PyNone, term |-> "none", delay |-> 0]
Propagate == [kind |-> "raise", value |-> PyNone, term |-> "fault", delay |-> 0]

\* MayRetry with retry_count + 1 for retry_count.
MayRetryEarlyStop(n) == n + 1 < config.max_retries

\* MayRetry with <= for <.
MayRetryInclusive(n) == n <= config.max_retries

\* if retry_count < self.config.max_retries
MayRetry(n) == n < config.max_retries

\* OnSuccessStatus with lstrip() for strip().
OnSuccessStatusLeftTrimmed(resp) ==
    IF resp.body = "content"
    THEN Return(PyStr(lstrip(resp.text)), "success")
    ELSE Return(PyNone, "malformed")

\* The status 200 branch without exception.
OnSuccessStatus(resp) ==
    IF resp.body = "content"
    THEN Return(PyStr(strip(resp.text)), "success")
    ELSE Return(PyNone, "malformed")

\* The status 429 branch.
OnRateLimited(n) ==
    IF MayRetry(n) THEN RetryAfter(BackoffDelay(n))
    ELSE Return(PyStr(RateLimitedMessage), "exhausted")

\* The branch of every other status.
OnErrorStatus(resp, n) ==
    IF MayRetry(n) THEN RetryAfter(BackoffDelay(n))
    ELSE Return(PyStr(StatusErrorMessage(resp.status)), "exhausted")

\* except asyncio.TimeoutError
OnTimeout(n) ==
    IF MayRetry(n) THEN RetryNow
    ELSE Return(PyStr(TimedOutMessage), "exhausted")

\* except Exception as e
OnException(exc, n) ==
    IF MayRetry(n) THEN RetryNow
    ELSE Return(PyStr(UnexpectedErrorMessage(exc)), "exhausted")

\* What the frame with retry_count n does with the remote's answer.
Outcome(resp, n) ==
    LET exc == Raises(resp) IN
    IF exc # "none"
    THEN CASE HandlerFor(exc) = "timeout" -> OnTimeout(n)
           [] HandlerFor(exc) = "generic" -> OnException(exc, n)
           [] OTHER -> Propagate
    ELSE IF resp.status = 200 THEN OnSuccessStatus(resp)
    ELSE IF resp.status = 429 THEN OnRateLimited(n)
    ELSE OnErrorStatus(resp, n)

NoResponse == [status |-> -1, body |-> "-", text |-> <<>>]

\* ------------------------------------------------------------ client
\* DiscordBot.setup_hook: OpenRouterClient(config) and create_session(); no call
\* made yet.
ClientInit ==
    /\ now = 0
    /\ request_times = <<>>
    /\ pc = [t \in Tasks |-> "idle"]
    /\ retry_count = [t \in Tasks |-> 0]
    /\ wake_at = [t \in Tasks |-> 0]
    /\ response = [t \in Tasks |-> NoResponse]
    /\ result = [t \in Tasks |-> PyNone]
    /\ terminal = [t \in Tasks |-> "none"]
    /\ attempts = [t \in Tasks |-> 0]
    /\ held = [t \in Tasks |-> 0]
    /\ session = "open"

\* ChatManager(config.max_history_messages): no conversation seen yet.
StoreInit ==
    /\ channel_histories = NoLogs
    /\ user_histories = NoLogs
    /\ appended = [k \in Keys |-> <<>>]
    /\ returned = NoCall
    /\ aliased = [t \in Tasks |-> NoKey]
    /\ conv = [t \in Tasks |-> NoConv]

\* The message a task handles: who wrote it, where, whether it mentions the bot,
\* its content (a text), how far on_message got with it ("none": no message
\* yet), whether process_commands found the prefix at its head, the command it
\* invoked, and the reply the command sent.
NoMessage ==
    [author |-> "none", dm |-> FALSE, channel |-> "none", mentions |-> FALSE,
     content |-> <<>>, stage |-> "none", dispatched |-> FALSE, command |-> "none",
     reply |-> "none"]

\* BotConfig() with COMMAND_PREFIX and CHAT_CHANNEL_ID unset, an empty channels
\* collection, and no message received yet.
BotInit ==
    /\ closed = "running"
    /\ command_prefix = <<"!">>
    /\ chat_channel_id = "none"
    /\ channels = "none"
    /\ message = [t \in Tasks |-> NoMessage]

\* No mini-game runs: FunCommands(bot) has started none.
NoGame ==
    [kind |-> "none", phase |-> "none", author |-> "none", dm |-> FALSE,
     channel |-> "none", answered_by |-> 0, answer |-> <<>>, max_num |-> 0,
     secret |-> 0, max_attempts |-> 0, attempts |-> 0, numeric |-> 0, invalid |-> 0,
     remaining |-> 0, finals |-> <<>>]

\* No reply is being sent.
NoOutbox ==
    [kind |-> "none", phase |-> "none", channel |-> "none", len |-> 0, next |-> 1,
     sent |-> <<>>]

\* FunCommands(bot) and the handlers before any command has run.
FunInit ==
    /\ game = [t \in Tasks |-> NoGame]
    /\ outbox = [t \in Tasks |-> NoOutbox]

\* The configurations of the rate limiter and of the retries.
Configs ==
    [rate_limit_requests : 0..MaxBudget,
     rate_limit_window : {Window},
     retry_delay_base : 1..MaxDelayBase,
     max_retries : 0..MaxRetriesBound]

Init ==
    /\ config \in Configs
    /\ max_history = MaxHistory
    /\ ClientInit
    /\ messages = [t \in Tasks |-> FirstTurnContext]
    /\ StoreInit
    /\ BotInit
    /\ FunInit

\* create_session: a session is made when the client has none.
CreateSession(s) == IF s = "none" THEN "open" ELSE s

\* The state after task t ran an attempt's entry e (BeginAttempt) as frame n.
EnterFrame(t, n, e) ==
    /\ session' = CreateSession(session)
    /\ request_times' = e.times
    /\ pc' = [pc EXCEPT ![t] = e.pc]
    /\ retry_count' = [retry_count EXCEPT ![t] = n]
    /\ wake_at' = [wake_at EXCEPT ![t] = e.wake_at]
    /\ attempts' = [attempts EXCEPT ![t] = @ + (IF e.pc = "in_flight" THEN 1 ELSE 0)]

\* The list as the attempt's entry e leaves it: with the system turn once the
\* frame got to the try block.
ListAfter(e, msgs) == IF e.pc = "in_flight" THEN WithSystemPrompt(msgs) ELSE msgs

Enter(t, n, e) ==
    /\ EnterFrame(t, n, e)
    /\ messages' = [messages EXCEPT ![t] = ListAfter(e, @)]

\* A caller awaits generate_response(messages): the first frame runs to its first
\* suspension. The callers are alike and are numbered in the order of their calls.
Call(t) ==
    /\ pc[t] = "idle"
    /\ \A u \in Tasks : u < t => pc[u] # "idle"
    /\ Enter(t, 0, BeginAttempt(request_times, now))
    /\ UNCHANGED <<config, now, response, result, terminal, held>>
    /\ UNCHANGED storeVars
    /\ UNCHANGED <<botVars, funVars>>

\* messages.insert(0, ...) changes the list object in place: a store log that is
\* this very object changes with it.
ListWrittenBack(t) ==
    LET k == aliased[t] IN
    /\ channel_histories' =
         IF k # NoKey /\ k[1] = "channel"
         THEN WithLog(channel_histories, k[2], messages'[t]) ELSE channel_histories
    /\ user_histories' =
         IF k # NoKey /\ k[1] = "user"
         THEN WithLog(user_histories, k[2], messages'[t]) ELSE user_histories
    /\ UNCHANGED <<max_history, appended, returned, aliased, conv>>

\* asyncio.sleep of _wait_for_rate_limit returns: the frame records and sends.
WakeRateLimit(t) ==
    /\ pc[t] = "rate_wait"
    /\ now >= wake_at[t]
    /\ request_times' = RecordRequest(request_times, now)
    /\ pc' = [pc EXCEPT ![t] = "in_flight"]
    /\ wake_at' = [wake_at EXCEPT ![t] = 0]
    /\ attempts' = [attempts EXCEPT ![t] = @ + 1]
    /\ messages' = [messages EXCEPT ![t] = WithSystemPrompt(@)]
    /\ UNCHANGED <<config, now, retry_count, response, result, terminal, session, held>>
    /\ ListWrittenBack(t)
    /\ UNCHANGED <<botVars, funVars>>

\* What self.session.post can end with: on a closed session it raises
\* RuntimeError, on None AttributeError, both taken by except Exception like a
\* transport error.
AnswersOn(s) ==
    IF s = "open" THEN Responses
    ELSE [status : {0}, body : {"ClientError"}, text : {<<>>}]

\* The HTTP call of task t ends: an answer, the deadline or a transport error.
ArriveAnswer(t) ==
    /\ pc[t] = "in_flight"
    /\ \E resp \in AnswersOn(session) : response' = [response EXCEPT ![t] = resp]
    /\ pc' = [pc EXCEPT ![t] = "resuming"]
    /\ UNCHANGED <<config, now, request_times, retry_count, wake_at, result, terminal,
                   attempts, messages, session>>
    /\ UNCHANGED storeVars
    /\ UNCHANGED <<botVars, funVars>>

\* The same, the responses a call holds left out of account.
Arrive(t) == ArriveAnswer(t) /\ UNCHANGED held

\* The same, and an answer with a status is a response the frame has entered
\* (`async with ... as response`).
ArriveHeld(t) ==
    /\ ArriveAnswer(t)
    /\ held' = [held EXCEPT ![t] = @ + (IF response'[t].status # 0 THEN 1 ELSE 0)]

\* The responses held once a frame goes on to a retry: one that raised inside
\* `async with` left the block, one whose text was read gave its connection
\* back, the 429 one stays entered with its body unread (the sleep and the
\* retry are inside its block).
HeldAfter(resp, h) == IF resp.status \in {0, 429} THEN h ELSE h - 1

\* The frame resumes with what its HTTP call ended with and runs on to its return
\* or to its next suspension.
ResumeFrame(t) ==
    /\ pc[t] = "resuming"
    /\ response' = [response EXCEPT ![t] = NoResponse]
    /\ LET n == retry_count[t]
           o == Outcome(response[t], n)
       IN  CASE o.kind = "return" ->
                /\ pc' = [pc EXCEPT ![t] = "done"]
                /\ result' = [result EXCEPT ![t] = o.value]
                /\ terminal' = [terminal EXCEPT ![t] = o.term]
                /\ retry_count' = [retry_count EXCEPT ![t] = 0]
                /\ UNCHANGED <<request_times, wake_at, attempts, messages, session>>
             [] o.kind = "retry_after" ->
                /\ pc' = [pc EXCEPT ![t] = "backoff"]
                /\ wake_at' = [wake_at EXCEPT ![t] = now + o.delay]
                /\ UNCHANGED <<request_times, retry_count, result, terminal, attempts,
                               messages, session>>
             [] o.kind = "retry_now" ->
                /\ Enter(t, NextRetryCount(n), Recurse(request_times, now))
                /\ UNCHANGED <<result, terminal>>
             [] OTHER ->
                /\ pc' = [pc EXCEPT ![t] = "raised"]
                /\ terminal' = [terminal EXCEPT ![t] = o.term]
                /\ UNCHANGED <<request_times, retry_count, wake_at, result, attempts,
                               messages, session>>
    /\ UNCHANGED <<config, now>>
    /\ UNCHANGED storeVars
    /\ UNCHANGED <<botVars, funVars>>

\* The same, the responses a call holds left out of account.
Resume(t) == ResumeFrame(t) /\ UNCHANGED held

\* The same, with the responses the call still holds: none once it returned or
\* raised.
ResumeHeld(t) ==
    /\ ResumeFrame(t)
    /\ held' = [held EXCEPT ![t] =
                    IF Outcome(response[t], retry_count[t]).kind \in {"return", "raise"}
                    THEN 0 ELSE HeldAfter(response[t], @)]

\* The backoff sleep returns: the frame calls generate_response(messages, n + 1).
WakeBackoff(t) ==
    /\ pc[t] = "backoff"
    /\ now >= wake_at[t]
    /\ Enter(t, NextRetryCount(retry_count[t]), Recurse(request_times, now))
    /\ UNCHANGED <<config, now, response, result, terminal, held>>
    /\ UNCHANGED storeVars
    /\ UNCHANGED <<botVars, funVars>>

\* Time passes. A frame whose HTTP call has ended resumes before the clock moves
\* on (the call itself may have lasted any time).
Tick ==
    /\ now < MaxTime
    /\ \A t \in Tasks : pc[t] # "resuming"
    /\ now' = now + 1
    /\ UNCHANGED <<config, request_times, pc, retry_count, wake_at, response, result,
                   messages, session>>
    /\ UNCHANGED historyVars
    /\ UNCHANGED storeVars
    /\ UNCHANGED <<botVars, funVars>>

vars == <<config, now, request_times, pc, retry_count, wake_at, response, result,
          messages, terminal, attempts, max_history, channel_histories, user_histories,
          appended, returned, aliased, conv, session, held, closed, command_prefix,
          chat_channel_id, channels, message, game, outbox>>

Next ==
    \/ \E t \in Tasks : Call(t)
    \/ \E t \in Tasks : WakeRateLimit(t)
    \/ \E t \in Tasks : Arrive(t)
    \/ \E t \in Tasks : Resume(t)
    \/ \E t \in Tasks : WakeBackoff(t)
    \/ Tick

Spec == Init /\ [][Next]_vars

\* The client under one configuration, for every list a caller may pass.
InitPrompt ==
    /\ config = [rate_limit_requests |-> 1, rate_limit_window |-> Window,
                 retry_delay_base |-> 1, max_retries |-> 1]
    /\ max_history = MaxHistory
    /\ ClientInit
    /\ messages \in [Tasks -> Inputs]
    /\ StoreInit
    /\ BotInit
    /\ FunInit

SpecPrompt == InitPrompt /\ [][Next]_vars

\* ------------------------------------------------------------- store
\* AppendTurn with the kind of the key ignored: both dictionaries get the turn.
AppendTurnBothKinds(k, turn) ==
    /\ channel_histories' =
         WithLog(channel_histories, k[2],
                 Push(Context(<<"channel", k[2]>>), turn, max_history))
    /\ user_histories' =
         WithLog(user_histories, k[2], Push(Context(<<"user", k[2]>>), turn, max_history))

\* append(key, role, content)
AppendTurn(k, turn) ==
    /\ channel_histories' =
         IF k[1] = "channel"
         THEN WithLog(channel_histories, k[2], Push(Context(k), turn, max_history))
         ELSE channel_histories
    /\ user_histories' =
         IF k[1] = "user"
         THEN WithLog(user_histories, k[2], Push(Context(k), turn, max_history))
         ELSE user_histories

\* The turns appended to all keys since each was last unseen.
RECURSIVE TotalLen(_, _)
TotalLen(f, S) ==
    IF S = {} THEN 0
    ELSE LET k == CHOOSE x \in S : TRUE IN Len(f[k]) + TotalLen(f, S \ {k})

\* stats(): the fields ChatCommands.chat_stats shows.
Stats ==
    [total_channels |-> Cardinality(DOMAIN channel_histories),
     total_users |-> Cardinality(DOMAIN user_histories),
     total_channel_messages |-> TotalLen(channel_histories, DOMAIN channel_histories),
     total_user_messages |-> TotalLen(user_histories, DOMAIN user_histories),
     max_history_per_conversation |-> max_history]

\* ReadLogs with the log of an unseen id created by the read.
ReadLogsCreating(d, id) == IF id \in DOMAIN d THEN d ELSE WithLog(d, id, <<>>)

\* The dictionary d after context() read the log of id: the read changes nothing.
ReadLogs(d, id) == d

\* SnapshotOf with the log object itself handed out.
SharedLogOf(k) == k

\* The store log that the list returned by context(k) is: none, the list is a
\* snapshot of its own.
SnapshotOf(k) == NoKey

StoreAppend ==
    /\ TotalLen(appended, Keys) < MaxAppends
    /\ \E k \in Keys, turn \in Turns :
        /\ AppendTurn(k, turn)
        /\ appended' = [appended EXCEPT ![k] = Append(@, turn)]
        /\ returned' = [op |-> "append", key |-> k, value |-> <<>>]
    /\ UNCHANGED <<max_history, aliased, conv, clientVars, historyVars, botVars, funVars>>

\* context(key)
StoreContext ==
    /\ \E k \in Keys :
        /\ returned' = [op |-> "context", key |-> k, value |-> Context(k)]
        /\ channel_histories' =
             IF k[1] = "channel" THEN ReadLogs(channel_histories, k[2])
             ELSE channel_histories
        /\ user_histories' =
             IF k[1] = "user" THEN ReadLogs(user_histories, k[2]) ELSE user_histories
    /\ UNCHANGED <<max_history, appended, aliased, conv, clientVars, historyVars, botVars, funVars>>

\* stats()
StoreStats ==
    /\ returned' = [op |-> "stats", key |-> NoKey, value |-> Stats]
    /\ UNCHANGED <<max_history, channel_histories, user_histories, appended, aliased,
                   conv, clientVars, historyVars, botVars, funVars>>

\* clear(key)
StoreClear ==
    /\ \E k \in Keys :
        /\ channel_histories' =
             IF k[1] = "channel" THEN WithoutLog(channel_histories, k[2])
             ELSE channel_histories
        /\ user_histories' =
             IF k[1] = "user" THEN WithoutLog(user_histories, k[2]) ELSE user_histories
        /\ appended' = [appended EXCEPT ![k] = <<>>]
        /\ returned' = [op |-> "clear", key |-> k, value |-> <<>>]
    /\ UNCHANGED <<max_history, aliased, conv, clientVars, historyVars, botVars, funVars>>

\* clearAll(): AdminCommands.clear_all_history clears both dictionaries.
StoreClearAll ==
    /\ channel_histories' = NoLogs
    /\ user_histories' = NoLogs
    /\ appended' = [k \in Keys |-> <<>>]
    /\ returned' = [op |-> "clearAll", key |-> NoKey, value |-> <<>>]
    /\ UNCHANGED <<max_history, aliased, conv, clientVars, historyVars, botVars, funVars>>

StoreNext ==
    \/ StoreAppend
    \/ StoreContext
    \/ StoreStats
    \/ StoreClear
    \/ StoreClearAll

\* The store alone, for every capacity from 1 to MaxHistory.
InitStore ==
    /\ config = [rate_limit_requests |-> 1, rate_limit_window |-> Window,
                 retry_delay_base |-> 1, max_retries |-> 0]
    /\ max_history \in 1..MaxHistory
    /\ ClientInit
    /\ messages = [t \in Tasks |-> FirstTurnContext]
    /\ StoreInit
    /\ BotInit
    /\ FunInit

SpecStore == InitStore /\ [][StoreNext]_vars

\* ------------------------------------------------------ chat handlers
\* The key whose context a handler reads: the author's in a DM, the channel's
\* elsewhere.
ContextKey(c) == IF c.dm THEN <<"user", c.author>> ELSE <<"channel", c.channel>>

\* Truthy with the empty response taken for a reply.
TruthyAlways(v) == TRUE

\* if response:
Truthy(v) == ~v.none /\ v.text # <<>>

\* The log of id in the dictionary d.
LogOf(d, id) == IF id \in DOMAIN d THEN d[id] ELSE <<>>

\* The dictionary d after a turn was appended to the log of id.
PushTo(d, id, turn) == WithLog(d, id, Push(LogOf(d, id), turn, max_history))

\* The lists the tasks hold once the dictionaries are ch and us: a list that is a
\* store log object shows what the log holds now.
ListsOver(ch, us, lists) ==
    [u \in Tasks |->
        IF aliased[u] = NoKey THEN lists[u]
        ELSE LogOf(IF aliased[u][1] = "channel" THEN ch ELSE us, aliased[u][2])]

\* add_message(channel_id=..., user_id=..., content=..., role=...): the turn goes
\* to the log of the channel and to the log of the user.
AddMessage(channel_id, user_id, turn) ==
    /\ channel_histories' = PushTo(channel_histories, channel_id, turn)
    /\ user_histories' = PushTo(user_histories, user_id, turn)
    /\ appended' = [k \in Keys |->
                        IF k \in {<<"channel", channel_id>>, <<"user", user_id>>}
                        THEN Append(appended[k], turn) ELSE appended[k]]

\* ContextRead with the context read before the user turn was added.
ContextReadBeforeAdd(c, ch, us) == Context(ContextKey(c))

\* get_conversation_context(user_id=...) in a DM, (channel_id=...) elsewhere, read
\* right after add_message: ch and us are the dictionaries with the user turn.
ContextRead(c, ch, us) == IF c.dm THEN LogOf(us, c.author) ELSE LogOf(ch, c.channel)

\* ChatCommands.chat_command up to its await of generate_response, and the first
\* frame of that call up to its first suspension.
ChatCommand(t, c, content) ==
    /\ LET turn == [role |-> "user", content |-> content]
           ch == PushTo(channel_histories, c.channel, turn)
           us == PushTo(user_histories, c.author, turn)
           k == ContextKey(c)
           context == ContextRead(c, ch, us)
           e == BeginAttempt(request_times, now)
           list == ListAfter(e, context)
           shared == SnapshotOf(k)
           ch2 == IF shared = k /\ ~c.dm THEN WithLog(ch, c.channel, list) ELSE ch
           us2 == IF shared = k /\ c.dm THEN WithLog(us, c.author, list) ELSE us
       IN  /\ conv' = [conv EXCEPT ![t] = c]
           /\ aliased' = [aliased EXCEPT ![t] = shared]
           /\ EnterFrame(t, 0, e)
           /\ channel_histories' = ch2
           /\ user_histories' = us2
           /\ messages' = [ListsOver(ch2, us2, messages) EXCEPT ![t] = list]
           /\ appended' = [j \in Keys |->
                               IF j \in {<<"channel", c.channel>>, <<"user", c.author>>}
                               THEN Append(appended[j], turn) ELSE appended[j]]
    /\ UNCHANGED <<config, now, response, result, terminal, held, max_history, returned>>

\* A chat command arrives for a task that has none yet. The handlers are alike and
\* are numbered in the order of their messages.
ChatAsk(t) ==
    /\ pc[t] = "idle" /\ conv[t].stage = "none"
    /\ \A u \in Tasks : u < t => (pc[u] # "idle" \/ conv[u].stage # "none")
    /\ \E c \in Convs, content \in Contents : ChatCommand(t, c, content)
    /\ UNCHANGED <<botVars, funVars>>

\* DiscordBot._handle_chat_message: BotConfig has no enable_auto_reactions, the
\* handler raises before its first add_message and reports the error.
HandleChatMessage(t) ==
    /\ pc[t] = "idle" /\ conv[t].stage = "none"
    /\ \A u \in Tasks : u < t => (pc[u] # "idle" \/ conv[u].stage # "none")
    /\ conv' = [conv EXCEPT ![t].stage = "failed"]
    /\ UNCHANGED <<max_history, channel_histories, user_histories, appended, returned,
                   aliased, clientVars, historyVars, botVars, funVars>>

\* ChatCommands.chat_command from the return of generate_response: the reply is
\* sent and added to the history, or the apology is sent.
ChatReply(t) ==
    /\ pc[t] = "done" /\ conv[t].stage = "asked"
    /\ conv' = [conv EXCEPT ![t].stage = "replied"]
    /\ IF Truthy(result[t])
       THEN /\ AddMessage(conv[t].channel, BotId,
                          [role |-> "assistant", content |-> result[t].text])
            /\ messages' = ListsOver(channel_histories', user_histories', messages)
       ELSE UNCHANGED <<channel_histories, user_histories, appended, messages>>
    /\ UNCHANGED <<config, now, request_times, pc, retry_count, wake_at, response,
                   result, session, max_history, returned, aliased, historyVars, botVars, funVars>>

InitChat ==
    /\ config = [rate_limit_requests |-> 1, rate_limit_window |-> Window,
                 retry_delay_base |-> 1, max_retries |-> 0]
    /\ max_history = MaxHistory
    /\ ClientInit
    /\ messages = [t \in Tasks |-> <<>>]
    /\ StoreInit
    /\ BotInit
    /\ FunInit

NextChat ==
    \/ \E t \in Tasks : ChatAsk(t)
    \/ \E t \in Tasks : HandleChatMessage(t)
    \/ \E t \in Tasks : WakeRateLimit(t)
    \/ \E t \in Tasks : Arrive(t)
    \/ \E t \in Tasks : Resume(t)
    \/ \E t \in Tasks : ChatReply(t)
    \/ Tick

\* The chat command and the message handler over the store and the client, the
\* client without retries (no frame ever sleeps a backoff).
SpecChat == InitChat /\ [][NextChat]_vars

\* ------------------------------------------------------- cancellation
\* asyncio.CancelledError raised at the await a frame is suspended in
\* (at: "rate_wait", "in_flight" or "backoff"). The sleep of _wait_for_rate_limit
\* is outside the try block; the HTTP call and the backoff sleep are inside it,
\* and neither except clause takes a CancelledError.
OnCancelCaught(at, n) ==
    IF at = "rate_wait" THEN Propagate ELSE OnException("CancelledError", n)

OnCancel(at, n) ==
    IF at = "rate_wait" \/ HandlerFor("CancelledError") = "propagate" THEN Propagate
    ELSE IF HandlerFor("CancelledError") = "timeout" THEN OnTimeout(n)
    ELSE OnException("CancelledError", n)

\* The task of caller t is cancelled while its frame is suspended: the exception
\* leaves generate_response and the handler that awaits it (except Exception does
\* not take it either), or an except clause of the frame goes on with it.
Cancel(t) ==
    /\ pc[t] \in {"rate_wait", "in_flight", "backoff"}
    /\ LET n == retry_count[t]
           o == OnCancel(pc[t], n)
       IN  CASE o.kind = "raise" ->
                /\ pc' = [pc EXCEPT ![t] = "cancelled"]
                /\ terminal' = [terminal EXCEPT ![t] = "cancelled"]
                /\ held' = [held EXCEPT ![t] = 0]
                /\ UNCHANGED <<request_times, retry_count, wake_at, result, attempts,
                               messages, session>>
             [] o.kind = "retry_now" ->
                /\ Enter(t, NextRetryCount(n), Recurse(request_times, now))
                /\ UNCHANGED <<result, terminal, held>>
             [] OTHER ->
                /\ pc' = [pc EXCEPT ![t] = "done"]
                /\ result' = [result EXCEPT ![t] = o.value]
                /\ terminal' = [terminal EXCEPT ![t] = o.term]
                /\ held' = [held EXCEPT ![t] = 0]
                /\ UNCHANGED <<request_times, retry_count, wake_at, attempts, messages,
                               session>>
    /\ UNCHANGED <<config, now, response>>
    /\ UNCHANGED storeVars
    /\ UNCHANGED <<botVars, funVars>>

InitCancel ==
    /\ config = [rate_limit_requests |-> 1, rate_limit_window |-> Window,
                 retry_delay_base |-> 1, max_retries |-> 1]
    /\ max_history = MaxHistory
    /\ ClientInit
    /\ messages = [t \in Tasks |-> <<>>]
    /\ StoreInit
    /\ BotInit
    /\ FunInit

NextCancel ==
    \/ \E t \in Tasks : ChatAsk(t)
    \/ \E t \in Tasks : WakeRateLimit(t)
    \/ \E t \in Tasks : Arrive(t)
    \/ \E t \in Tasks : Resume(t)
    \/ \E t \in Tasks : WakeBackoff(t)
    \/ \E t \in Tasks : ChatReply(t)
    \/ \E t \in Tasks : Cancel(t)
    \/ Tick

\* The chat command over the store and the client with one retry, its task
\* cancelled at any suspension.
SpecCancel == InitCancel /\ [][NextCancel]_vars

\* ------------------------------------------------------- termination
\* A timestamp one unit further in the past, kept at floor once it is that old.
Shift(x, floor) == IF x - 1 < floor THEN floor ELSE x - 1

\* Time passes beyond the last clock value: now stays and every ledger entry and
\* every due time moves one unit into the past instead. An entry as old as the
\* window is out of every later window, and a due time that has come stays so.
Elapse ==
    /\ now = MaxTime
    /\ \A t \in Tasks : pc[t] # "resuming"
    /\ request_times' =
         [i \in DOMAIN request_times |->
            Shift(request_times[i], MaxTime - config.rate_limit_window)]
    /\ wake_at' = [t \in Tasks |-> Shift(wake_at[t], 0)]
    /\ UNCHANGED <<config, now, pc, retry_count, response, result, messages, session>>
    /\ UNCHANGED historyVars
    /\ UNCHANGED storeVars
    /\ UNCHANGED <<botVars, funVars>>

\* The client constructed when the clock shows its last value: from then on time
\* passes by Elapse alone.
InitLive ==
    /\ config = [rate_limit_requests |-> 1, rate_limit_window |-> Window,
                 retry_delay_base |-> 1, max_retries |-> MaxLiveRetries]
    /\ max_history = MaxHistory
    /\ now = MaxTime
    /\ request_times = <<>>
    /\ pc = [t \in Tasks |-> "idle"]
    /\ retry_count = [t \in Tasks |-> 0]
    /\ wake_at = [t \in Tasks |-> 0]
    /\ response = [t \in Tasks |-> NoResponse]
    /\ result = [t \in Tasks |-> PyNone]
    /\ terminal = [t \in Tasks |-> "none"]
    /\ attempts = [t \in Tasks |-> 0]
    /\ held = [t \in Tasks |-> 0]
    /\ session = "open"
    /\ messages = [t \in Tasks |-> FirstTurnContext]
    /\ StoreInit
    /\ BotInit
    /\ FunInit

NextLive ==
    \/ \E t \in Tasks : Call(t)
    \/ \E t \in Tasks : WakeRateLimit(t)
    \/ \E t \in Tasks : Arrive(t)
    \/ \E t \in Tasks : Resume(t)
    \/ \E t \in Tasks : WakeBackoff(t)
    \/ Elapse

\* The client with time that never stops: every HTTP call ends (with an answer or
\* by its 30 s deadline), every sleep that is due returns, and every frame that can
\* go on does.
SpecLive ==
    /\ InitLive
    /\ [][NextLive]_vars
    /\ WF_vars(Elapse)
    /\ \A t \in Tasks :
        /\ WF_vars(WakeRateLimit(t))
        /\ WF_vars(Arrive(t))
        /\ WF_vars(Resume(t))
        /\ WF_vars(WakeBackoff(t))

\* --------------------------------------------------------- shutdown
\* DiscordBot.close up to the await in close_session: the HTTP session is closed.
BotClose ==
    /\ closed = "running"
    /\ closed' = "closing"
    /\ session' = IF session = "none" THEN "none" ELSE "closed"
    /\ UNCHANGED <<command_prefix, chat_channel_id, channels, message, funVars>>
    /\ UNCHANGED <<config, now, request_times, pc, retry_count, wake_at, response, result,
                   messages>>
    /\ UNCHANGED historyVars
    /\ UNCHANGED storeVars

\* close_session goes on after its await: self.session = None; then
\* super().close() closes the bot.
BotClosed ==
    /\ closed = "closing"
    /\ closed' = "closed"
    /\ session' = IF session = "closed" THEN "none" ELSE session
    /\ UNCHANGED <<command_prefix, chat_channel_id, channels, message, funVars>>
    /\ UNCHANGED <<config, now, request_times, pc, retry_count, wake_at, response, result,
                   messages>>
    /\ UNCHANGED historyVars
    /\ UNCHANGED storeVars

InitClose ==
    /\ config = [rate_limit_requests |-> 1, rate_limit_window |-> Window,
                 retry_delay_base |-> 1, max_retries |-> 1]
    /\ max_history = MaxHistory
    /\ ClientInit
    /\ messages = [t \in Tasks |-> FirstTurnContext]
    /\ StoreInit
    /\ BotInit
    /\ FunInit

NextClose ==
    \/ Next
    \/ BotClose
    \/ BotClosed

\* The client while the bot is closed at any moment; the handlers that await a
\* completion keep running on the event loop.
SpecClose == InitClose /\ [][NextClose]_vars

\* ------------------------------------------------ responses held
InitHeld ==
    /\ config = [rate_limit_requests |-> 1, rate_limit_window |-> Window,
                 retry_delay_base |-> 1, max_retries |-> MaxRetriesBound]
    /\ max_history = MaxHistory
    /\ ClientInit
    /\ messages = [t \in Tasks |-> FirstTurnContext]
    /\ StoreInit
    /\ BotInit
    /\ FunInit

NextHeld ==
    \/ \E t \in Tasks : Call(t)
    \/ \E t \in Tasks : WakeRateLimit(t)
    \/ \E t \in Tasks : ArriveHeld(t)
    \/ \E t \in Tasks : ResumeHeld(t)
    \/ \E t \in Tasks : WakeBackoff(t)
    \/ Tick

\* The client with the HTTP responses each call holds.
SpecHeld == InitHeld /\ [][NextHeld]_vars

\* ------------------------------------------- messages and commands
\* str.startswith
StartsWith(text, head) == Len(head) <= Len(text) /\ SubSeq(text, 1, Len(head)) = head

\* The admin commands of AdminCommands, and the commands modelled in all.
AdminNames ==
    {"setchannel", "unsetchannel", "setprefix", "botstats", "clearall", "shutdown",
     "eval", "say", "reload"}
\* The commands of FunCommands that wait for messages.
GameNames == {"game", "guess"}
CommandNames == {"ask", "chat"} \cup AdminNames \cup GameNames

\* process_commands: the command a content invokes under a prefix ("none": the
\* prefix is not at its head, or no command has the name that follows it).
Invoked(content, prefix) ==
    IF StartsWith(content, prefix) /\ Len(content) > Len(prefix)
       /\ content[Len(prefix) + 1] \in CommandNames
    THEN content[Len(prefix) + 1] ELSE "none"

\* The arguments of the command.
Arguments(content, prefix) == SubSeq(content, Len(prefix) + 2, Len(content))

\* IsBot with every author taken for a human.
IsBotNever(author) == FALSE

\* message.author.bot
IsBot(author) == author = BotId

\* IsAdmin with an admin_user_id in the configuration.
IsAdminConfigured(user_id) == IF user_id = "id2" THEN "yes" ELSE "no"

\* is_admin: user_id == self.bot.config.admin_user_id, and BotConfig has no
\* attribute admin_user_id: the comparison is never made.
IsAdmin(user_id) == "AttributeError"

\* ShouldRespond with mentions answered in every channel.
ShouldRespondMentionsToo(m) ==
    \/ m.dm
    \/ chat_channel_id # "none" /\ m.channel = chat_channel_id
    \/ m.mentions

\* _should_respond_to_message
ShouldRespond(m) ==
    IF m.dm THEN TRUE
    ELSE IF chat_channel_id # "none" THEN m.channel = chat_channel_id
    ELSE m.mentions

\* The contents of the messages: a plain text, the chat and ask commands, a
\* command that does not exist, and the admin commands with the arguments they
\* require.
MessageContents ==
    { <<"hi">>, <<"!", "chat", "hi">>, <<"!", "ask", "hi">>, <<"!", "foo">>,
      <<"!", "setprefix", "?">>, <<"!", "eval", "hi">>, <<"!", "say", "hi">> }
    \cup {<<"!", w>> : w \in AdminNames \ {"setprefix", "eval", "say"}}

\* The messages that arrive: those of the users, a plain text with or without a
\* mention of the bot, and those the bot itself has sent.
Messages ==
    { m \in [author : Ids, dm : BOOLEAN, channel : Ids, mentions : BOOLEAN,
             content : MessageContents, stage : {"none"}, dispatched : {FALSE},
             command : {"none"}, reply : {"none"}] :
        m.mentions => m.content = <<"hi">> }
    \cup [author : {BotId}, dm : BOOLEAN, channel : Ids, mentions : {FALSE},
          content : {<<"hi">>, <<"!", "chat", "hi">>}, stage : {"none"},
          dispatched : {FALSE}, command : {"none"}, reply : {"none"}]

\* on_message from `if message.content.startswith(self.config.command_prefix)`
\* to the await inside _handle_chat_message: where the message stands then.
StageAfterCommands(m) ==
    IF StartsWith(m.content, command_prefix) THEN "ended"
    ELSE IF ShouldRespond(m) THEN "chat"
    ELSE "ended"

\* on_message returns at once for the message of a bot.
Ignore(t, m) ==
    /\ message' = [message EXCEPT ![t] = [m EXCEPT !.stage = "ended"]]
    /\ UNCHANGED <<closed, command_prefix, chat_channel_id, channels, outbox>>
    /\ UNCHANGED clientVars
    /\ UNCHANGED historyVars
    /\ UNCHANGED storeVars

\* process_commands invokes no command and returns; on_message goes on.
NoCommand(t, m) ==
    /\ message' = [message EXCEPT ![t] =
                      [m EXCEPT !.stage = StageAfterCommands(m),
                                !.dispatched = StartsWith(m.content, command_prefix)]]
    /\ UNCHANGED <<closed, command_prefix, chat_channel_id, channels, outbox>>
    /\ UNCHANGED clientVars
    /\ UNCHANGED historyVars
    /\ UNCHANGED storeVars

\* process_commands invokes chat_command, which runs to its await of
\* generate_response.
RunChat(t, m) ==
    /\ ChatCommand(t, [stage |-> "asked", dm |-> m.dm, channel |-> m.channel,
                       author |-> m.author],
                   Arguments(m.content, command_prefix))
    /\ message' = [message EXCEPT ![t] =
                      [m EXCEPT !.stage = "command", !.dispatched = TRUE,
                                !.command = "chat"]]
    /\ UNCHANGED <<closed, command_prefix, chat_channel_id, channels, outbox>>

\* process_commands invokes ask_command, which runs to its await of
\* generate_response.
RunAsk(t, m) ==
    /\ LET e == BeginAttempt(request_times, now) IN
        /\ EnterFrame(t, 0, e)
        /\ messages' =
             [messages EXCEPT ![t] =
                 ListAfter(e, AskMessages(Arguments(m.content, command_prefix)))]
    /\ message' = [message EXCEPT ![t] =
                      [m EXCEPT !.stage = "command", !.dispatched = TRUE,
                                !.command = "ask"]]
    /\ UNCHANGED <<config, now, response, result, terminal, held>>
    /\ UNCHANGED <<closed, command_prefix, chat_channel_id, channels, outbox>>
    /\ UNCHANGED storeVars

\* process_commands invokes an admin command, which runs to its first await (the
\* send of its reply): is_admin raises and on_command_error reports the error,
\* or the command refuses, or it does its work.
RunAdmin(t, m, cmd) ==
    LET admin == IsAdmin(m.author)
        does(name) == admin = "yes" /\ cmd = name
        new_prefix == Arguments(m.content, command_prefix)
        too_long == Len(new_prefix) > 5
    IN  /\ message' = [message EXCEPT ![t] =
                          [m EXCEPT !.stage = "command", !.dispatched = TRUE,
                                    !.command = cmd,
                                    !.reply = IF admin = "AttributeError" THEN "error"
                                              ELSE IF admin = "no" THEN "refusal"
                                              ELSE IF cmd = "setprefix" /\ too_long
                                                   THEN "too_long" ELSE "done"]]
        /\ command_prefix' =
             IF does("setprefix") /\ ~too_long THEN new_prefix ELSE command_prefix
        /\ chat_channel_id' =
             IF does("setchannel") THEN m.channel
             ELSE IF does("unsetchannel") THEN "none"
             ELSE chat_channel_id
        /\ channels' = IF does("setchannel") /\ ~m.dm THEN m.channel ELSE channels
        /\ channel_histories' = IF does("clearall") THEN NoLogs ELSE channel_histories
        /\ user_histories' = IF does("clearall") THEN NoLogs ELSE user_histories
        /\ appended' = IF does("clearall") THEN [k \in Keys |-> <<>>] ELSE appended
        /\ UNCHANGED <<closed, max_history, returned, aliased, conv, outbox>>
        /\ UNCHANGED clientVars
        /\ UNCHANGED historyVars

\* ------------------------------------------- mini-games
\* The check of wait_for('message', check=check): message.author == ctx.author
\* and message.channel == ctx.channel, for a game that waits.
Waits(g, m) ==
    /\ g.phase = "waiting"
    /\ m.author = g.author /\ m.dm = g.dm /\ m.channel = g.channel

\* The dispatch of a message resolves the wait_for of every game whose check it
\* passes: the game has its answer, the message of task t.
Consume(g, t, m) ==
    IF Waits(g, m)
    THEN [g EXCEPT !.phase = "answered", !.answered_by = t, !.answer = m.content]
    ELSE g

\* guess_command up to its first send: max_attempts = min(10, max_num // 10 + 3).
MaxAttempts(max_num) == IF max_num \div 10 + 3 < 10 THEN max_num \div 10 + 3 ELSE 10

\* start_trivia (start_math_game, start_word_game and start_riddle_game are
\* alike) up to the send of its question, asked by the message m.
QuizStarted(m) ==
    [NoGame EXCEPT !.kind = "quiz", !.phase = "starting", !.author = m.author,
                   !.dm = m.dm, !.channel = m.channel]

\* guess_command up to the send of its opening, asked by the message m.
GuessStarted(m, max_num, secret_number) ==
    [NoGame EXCEPT !.kind = "guess", !.phase = "starting", !.author = m.author,
                   !.dm = m.dm, !.channel = m.channel, !.max_num = max_num,
                   !.secret = secret_number, !.max_attempts = MaxAttempts(max_num),
                   !.remaining = MaxAttempts(max_num)]

\* random.randint(1, max_num): the least, the greatest and one in between.
Secrets(max_num) == {1, 5, max_num}

\* The games the command cmd of the message m may start: `!game trivia`, or
\* `!guess` with its default max_num of 100.
GamesStarted(m, cmd) ==
    IF cmd = "game" THEN {QuizStarted(m)}
    ELSE {GuessStarted(m, 100, secret_number) : secret_number \in Secrets(100)}

\* The numerals the texts are written with, and the numbers they stand for.
Numerals == {"0", "1", "4", "5", "6"}
NumberOf(c) ==
    CASE c = "0" -> 0 [] c = "1" -> 1 [] c = "4" -> 4 [] c = "5" -> 5 [] OTHER -> 6

\* int(text.strip()): the number, or ValueError.
ParseInt(text) ==
    LET s == strip(text) IN
    IF Len(s) = 1 /\ s[1] \in Numerals
    THEN [ok |-> TRUE, value |-> NumberOf(s[1])]
    ELSE [ok |-> FALSE, value |-> 0]

\* GuessStep with the input that is no number counted as an attempt.
GuessStepCountsAll(g, text) ==
    LET guess == ParseInt(text)
        n == g.attempts + 1
    IN  IF guess.ok /\ guess.value = g.secret
        THEN [g EXCEPT !.phase = "over", !.attempts = n, !.numeric = @ + 1,
                       !.finals = Append(@, "win")]
        ELSE [g EXCEPT !.attempts = n,
                       !.numeric = IF guess.ok THEN @ + 1 ELSE @,
                       !.invalid = IF guess.ok THEN @ ELSE @ + 1,
                       !.remaining = g.max_attempts - n,
                       !.phase = IF n >= g.max_attempts THEN "over" ELSE "starting",
                       !.finals = IF n >= g.max_attempts
                                  THEN Append(@, "game_over") ELSE @]

\* One round of the loop of guess_command, from the text wait_for returned to
\* the next wait_for or to the return.
GuessStep(g, text) ==
    LET guess == ParseInt(text)
        n == g.attempts + 1
    IN  IF ~guess.ok
        THEN [g EXCEPT !.invalid = @ + 1, !.phase = "starting"]
        ELSE IF guess.value = g.secret
        THEN [g EXCEPT !.phase = "over", !.attempts = n, !.numeric = @ + 1,
                       !.finals = Append(@, "win")]
        ELSE [g EXCEPT !.attempts = n, !.numeric = @ + 1,
                       !.remaining = g.max_attempts - n,
                       !.phase = IF n >= g.max_attempts THEN "over" ELSE "starting",
                       !.finals = IF n >= g.max_attempts
                                  THEN Append(@, "game_over") ELSE @]

\* start_trivia after wait_for: answer.content.lower().strip() == question['a'],
\* for the question whose answer is "4".
QuizStep(g, text) ==
    [g EXCEPT !.phase = "over",
              !.finals = Append(@, IF strip(text) = <<"4">> THEN "correct" ELSE "wrong")]

\* The game after the text that wait_for returned.
Evaluate(g, text) == IF g.kind = "guess" THEN GuessStep(g, text) ELSE QuizStep(g, text)

\* The game has sent its question or its hint and calls wait_for.
GameWait(t) ==
    /\ game[t].phase = "starting"
    /\ game' = [game EXCEPT ![t].phase = "waiting"]
    /\ UNCHANGED <<outbox, clientVars, historyVars, storeVars, botVars>>

\* The game resumes with the message wait_for returned.
GameResume(t) ==
    /\ game[t].phase = "answered"
    /\ game' = [game EXCEPT ![t] = Evaluate(game[t], game[t].answer)]
    /\ UNCHANGED <<outbox, clientVars, historyVars, storeVars, botVars>>

\* wait_for raises asyncio.TimeoutError: "Time's up!".
GameTimeout(t) ==
    /\ game[t].phase = "waiting"
    /\ game' = [game EXCEPT ![t].phase = "over", ![t].finals = Append(@, "times_up")]
    /\ UNCHANGED <<outbox, clientVars, historyVars, storeVars, botVars>>

\* process_commands invokes game_command or guess_command, which runs to the
\* send of its question.
RunGame(t, m, cmd) ==
    /\ message' = [message EXCEPT ![t] =
                      [m EXCEPT !.stage = "command", !.dispatched = TRUE,
                                !.command = cmd]]
    /\ UNCHANGED <<closed, command_prefix, chat_channel_id, channels, outbox>>
    /\ UNCHANGED clientVars
    /\ UNCHANGED historyVars
    /\ UNCHANGED storeVars

\* ------------------------------------------- the arrival of a message
\* A message drawn from msgs arrives: the games that wait for it get it, and
\* on_message runs to its first suspension. The handlers are alike and are
\* numbered in the order of their messages.
Receive(t, msgs) ==
    /\ message[t].stage = "none"
    /\ \A u \in Tasks : u < t => message[u].stage # "none"
    /\ \E m \in msgs :
        LET cmd == Invoked(m.content, command_prefix)
            starts == ~IsBot(m.author) /\ cmd \in GameNames
        IN  /\ IF IsBot(m.author) THEN Ignore(t, m)
               ELSE IF cmd = "chat" THEN RunChat(t, m)
               ELSE IF cmd = "ask" THEN RunAsk(t, m)
               ELSE IF cmd \in AdminNames THEN RunAdmin(t, m, cmd)
               ELSE IF cmd \in GameNames THEN RunGame(t, m, cmd)
               ELSE NoCommand(t, m)
            /\ \E started \in (IF starts THEN GamesStarted(m, cmd) ELSE {game[t]}) :
                 game' = [u \in Tasks |->
                             IF u = t THEN started ELSE Consume(game[u], t, m)]

\* A message arrives while no game is played.
OnMessage(t) == Receive(t, Messages)

\* The command of the message is over.
CommandOver(t) ==
    CASE message[t].command = "chat" -> conv[t].stage = "replied"
      [] message[t].command = "ask" -> pc[t] = "done"
      [] message[t].command \in GameNames -> game[t].phase = "over"
      [] OTHER -> TRUE

\* The command has sent its reply (shutdown_bot then closes the bot),
\* process_commands returns and on_message goes on.
AfterCommands(t) ==
    /\ message[t].stage = "command"
    /\ CommandOver(t)
    /\ LET closes == message[t].command = "shutdown" /\ message[t].reply = "done"
                     /\ closed = "running"
       IN  /\ message' = [message EXCEPT ![t].stage = StageAfterCommands(message[t])]
           /\ closed' = IF closes THEN "closing" ELSE closed
           /\ session' = IF closes /\ session # "none" THEN "closed" ELSE session
    /\ UNCHANGED <<command_prefix, chat_channel_id, channels, funVars>>
    /\ UNCHANGED <<config, now, request_times, pc, retry_count, wake_at, response, result,
                   messages>>
    /\ UNCHANGED historyVars
    /\ UNCHANGED storeVars

\* _handle_chat_message goes on inside `async with message.channel.typing()`:
\* config.enable_auto_reactions raises AttributeError, nothing is added to the
\* history, no completion is asked for, and the error is reported.
HandleChat(t) ==
    /\ message[t].stage = "chat"
    /\ message' = [message EXCEPT ![t].stage = "chat_failed"]
    /\ UNCHANGED <<closed, command_prefix, chat_channel_id, channels, funVars>>
    /\ UNCHANGED clientVars
    /\ UNCHANGED historyVars
    /\ UNCHANGED storeVars

\* The completion client without retries and with a budget no handler exhausts:
\* no frame ever sleeps.
InitBot ==
    /\ config = [rate_limit_requests |-> MaxBudget, rate_limit_window |-> Window,
                 retry_delay_base |-> 1, max_retries |-> 0]
    /\ max_history = MaxHistory
    /\ ClientInit
    /\ messages = [t \in Tasks |-> <<>>]
    /\ StoreInit
    /\ BotInit
    /\ FunInit

NextBot ==
    \/ \E t \in Tasks : OnMessage(t)
    \/ \E t \in Tasks : Arrive(t)
    \/ \E t \in Tasks : Resume(t)
    \/ \E t \in Tasks : ChatReply(t)
    \/ \E t \in Tasks : AfterCommands(t)
    \/ \E t \in Tasks : HandleChat(t)

\* The bot: the messages of users and of the bot itself, handled concurrently.
SpecBot == InitBot /\ [][NextBot]_vars

\* ------------------------------------------- messages while a game waits
\* The messages of the users while games are played: the commands that start a
\* game, a text that answers one, and a chat command.
GameMessages ==
    [author : Ids, dm : BOOLEAN, channel : Ids, mentions : {FALSE},
     content : {<<"!", "game", "trivia">>, <<"!", "guess">>, <<"4">>,
                <<"!", "chat", "4">>},
     stage : {"none"}, dispatched : {FALSE}, command : {"none"}, reply : {"none"}]

\* A message arrives while games may be waiting.
OnGameMessage(t) == Receive(t, GameMessages)

NextGame ==
    \/ \E t \in Tasks : OnGameMessage(t)
    \/ \E t \in Tasks : GameWait(t)
    \/ \E t \in Tasks : GameResume(t)
    \/ \E t \in Tasks : GameTimeout(t)
    \/ \E t \in Tasks : Arrive(t)
    \/ \E t \in Tasks : Resume(t)
    \/ \E t \in Tasks : ChatReply(t)
    \/ \E t \in Tasks : AfterCommands(t)
    \/ \E t \in Tasks : HandleChat(t)

\* The bot with its mini-games.
SpecGame == InitBot /\ [][NextGame]_vars

\* ------------------------------------------- the number guessing game
\* The max_num of `!guess <max_num>`: below, at and above the limits of the
\* command, and where max_num // 10 + 3 reaches 10.
MaxNums == {9, 10, 70, 1000, 1001}

\* What the player sends: texts that are no number, and numbers below, at and
\* above the secret ones.
GuessTexts == {<<"x">>, <<" ", "5", " ">>, <<"0">>, <<"1">>, <<"6">>}

\* The player of the games of SpecGuess and the channel they are played in.
Player == [author |-> "id1", dm |-> FALSE, channel |-> "id1"]

\* guess_command is invoked: it refuses a max_num outside 10..1000, else picks its
\* secret number and sends its opening.
GuessStart(t) ==
    /\ game[t].phase = "none"
    /\ \E max_num \in MaxNums :
        IF max_num < 10 \/ max_num > 1000
        THEN game' = [game EXCEPT ![t] =
                         [NoGame EXCEPT !.kind = "guess", !.phase = "refused",
                                        !.max_num = max_num]]
        ELSE \E secret_number \in Secrets(max_num) :
                game' = [game EXCEPT ![t] = GuessStarted(Player, max_num, secret_number)]
    /\ UNCHANGED <<outbox, clientVars, historyVars, storeVars, botVars>>

\* wait_for returns a message of the player and the loop runs one round, to the
\* next wait_for or to the return. The texts that are no number are bounded.
GuessInput(t) ==
    /\ game[t].phase = "waiting"
    /\ \E text \in GuessTexts :
        /\ ParseInt(text).ok \/ game[t].invalid < MaxInvalid
        /\ game' = [game EXCEPT ![t] = GuessStep(game[t], text)]
    /\ UNCHANGED <<outbox, clientVars, historyVars, storeVars, botVars>>

NextGuess ==
    \/ \E t \in Tasks : GuessStart(t)
    \/ \E t \in Tasks : GameWait(t)
    \/ \E t \in Tasks : GuessInput(t)
    \/ \E t \in Tasks : GameTimeout(t)

\* Two number guessing games, played concurrently.
SpecGuess == InitBot /\ [][NextGuess]_vars

\* ------------------------------------------- a configured chat channel
\* BotConfig._get_channel_id: CHAT_CHANNEL_ID unset, or the id of a channel.
ChannelIds == {"none"} \cup Ids

\* The bot of InitBot with the chat channel the environment configures.
InitRoute ==
    /\ config = [rate_limit_requests |-> MaxBudget, rate_limit_window |-> Window,
                 retry_delay_base |-> 1, max_retries |-> 0]
    /\ max_history = MaxHistory
    /\ ClientInit
    /\ messages = [t \in Tasks |-> <<>>]
    /\ StoreInit
    /\ closed = "running"
    /\ command_prefix = <<"!">>
    /\ chat_channel_id \in ChannelIds
    /\ channels = "none"
    /\ message = [t \in Tasks |-> NoMessage]
    /\ FunInit

\* The bot with or without a chat channel.
SpecRoute == InitRoute /\ [][NextBot]_vars

\* ------------------------------------------- replies sent in chunks
\* The responses are told apart by their length here, and a part of a response
\* by the offsets it runs between: [lo |-> i, hi |-> j] is response[i:j].

\* The 2000 of `len(response) > 2000` and of the slices.
ChunkSize == 2000

\* An offset as a slice takes it: no further than the end of the text.
Clip(i, len) == IF i > len THEN len ELSE i

\* Slice with the offsets taken as they are.
SliceBeyond(len, lo, hi) == [lo |-> lo, hi |-> hi]

\* response[lo:hi] of a response of len characters.
Slice(len, lo, hi) == [lo |-> Clip(lo, len), hi |-> Clip(hi, len)]

\* [response[i:i+2000] for i in range(from, len(response), 2000)]
RECURSIVE ChunksFrom(_, _)
ChunksFrom(len, from) ==
    IF from >= len THEN <<>>
    ELSE <<Slice(len, from, from + ChunkSize)>> \o ChunksFrom(len, from + ChunkSize)

\* What the command sends for a response: its chunks when it is longer than 2000
\* characters, else the response.
Parts(len) == IF len > ChunkSize THEN ChunksFrom(len, 0) ELSE <<Slice(len, 0, len)>>

\* The lengths of the responses: none or empty (0), and lengths at and around
\* the multiples of 2000.
ResponseLengths ==
    {0} \cup {k * ChunkSize + d : k \in 0..(MaxChunks - 1), d \in {1, 2, ChunkSize - 1, ChunkSize}}

\* generate_response has returned to ask_command or chat_command: `if response:`.
Respond(t) ==
    /\ outbox[t].phase = "none"
    /\ \E kind \in {"ask", "chat"}, ch \in Ids, len \in ResponseLengths :
        outbox' = [outbox EXCEPT ![t] =
                      [kind |-> kind, phase |-> IF len = 0 THEN "apology" ELSE "sending",
                       channel |-> ch, len |-> len, next |-> 1, sent |-> <<>>]]
    /\ UNCHANGED <<game, clientVars, historyVars, storeVars, botVars>>

\* One `await ctx.send(...)` of the response or of its next chunk.
SendChunk(t) ==
    /\ outbox[t].phase = "sending"
    /\ LET o == outbox[t]
           parts == Parts(o.len)
       IN  outbox' = [outbox EXCEPT ![t] =
                         [o EXCEPT !.sent = Append(o.sent, parts[o.next]),
                                   !.next = o.next + 1,
                                   !.phase = IF o.next < Len(parts) THEN "sending"
                                             ELSE IF o.kind = "chat" THEN "sent"
                                             ELSE "done"]]
    /\ UNCHANGED <<game, clientVars, historyVars, storeVars, botVars>>

\* The else branch of `if response:`: the apology is sent, nothing is stored.
SendApology(t) ==
    /\ outbox[t].phase = "apology"
    /\ outbox' = [outbox EXCEPT ![t].phase = "apologised"]
    /\ UNCHANGED <<game, clientVars, historyVars, storeVars, botVars>>

\* chat_command after its sends: add_message(..., content=response,
\* role="assistant").
StoreReply(t) ==
    /\ outbox[t].phase = "sent"
    /\ outbox' = [outbox EXCEPT ![t].phase = "done"]
    /\ AddMessage(outbox[t].channel, BotId,
                  [role |-> "assistant",
                   content |-> Slice(outbox[t].len, 0, outbox[t].len)])
    /\ messages' = ListsOver(channel_histories', user_histories', messages)
    /\ UNCHANGED <<config, now, request_times, pc, retry_count, wake_at, response,
                   result, session, max_history, returned, aliased, conv, game,
                   historyVars, botVars>>

InitChunk ==
    /\ config = [rate_limit_requests |-> MaxBudget, rate_limit_window |-> Window,
                 retry_delay_base |-> 1, max_retries |-> 0]
    /\ max_history = MaxHistory
    /\ ClientInit
    /\ messages = [t \in Tasks |-> <<>>]
    /\ StoreInit
    /\ BotInit
    /\ FunInit

NextChunk ==
    \/ \E t \in Tasks : Respond(t)
    \/ \E t \in Tasks : SendChunk(t)
    \/ \E t \in Tasks : SendApology(t)
    \/ \E t \in Tasks : StoreReply(t)

\* The replies of two commands, sent concurrently.
SpecChunk == InitChunk /\ [][NextChunk]_vars

\* ===================================================================
\* Properties of the completion client
\* ===================================================================

\* The ledger entries inside the window that ends now, and the oldest of them.
InWindow == {i \in DOMAIN request_times : now - request_times[i] < config.rate_limit_window}
OldestInWindow ==
    CHOOSE x \in {request_times[i] : i \in InWindow} :
        \A i \in InWindow : x <= request_times[i]
WindowEntries == SelectSeq(request_times, LAMBDA x : now - x < config.rate_limit_window)

\* Task t's frame resumes from its HTTP call in this step.
Resumes(t) == pc[t] = "resuming" /\ pc'[t] # "resuming"
\* Task t starts an attempt (enters generate_response) in this step.
StartsAttempt(t) ==
    pc[t] \in {"idle", "resuming", "backoff"} /\ pc'[t] \in {"rate_wait", "in_flight"}
\* Task t records a ledger entry and sends in this step.
Sends(t) == attempts'[t] = attempts[t] + 1

\* C1: in every window of length W (each ends at some clock value, and every entry
\* inside the window that ends now is still in the ledger) at most B attempts are
\* recorded, whatever the interleaving of the callers.
C1_BudgetNeverExceeded ==
    config.rate_limit_requests >= 1 => Cardinality(InWindow) <= config.rate_limit_requests

\* C2: exhaustion law. A call never makes more than max_retries + 1 network
\* attempts; an attempt that fails with 429, another status, a timeout or a
\* transport error is followed by another attempt as long as fewer than
\* max_retries + 1 were made, and the (max_retries + 1)th such failure ends the call
\* in a terminal failure without a further attempt.
C2_ExhaustionLaw ==
    /\ [](\A t \in Tasks : attempts[t] <= config.max_retries + 1)
    /\ [][\A t \in Tasks :
            (Resumes(t) /\ (response[t].status \in {429, 500}
                            \/ response[t].body \in {"TimeoutError", "ClientError"}))
            => IF attempts[t] = config.max_retries + 1
               THEN pc'[t] = "done" /\ terminal'[t] = "exhausted"
                    /\ ~result'[t].none /\ attempts'[t] = attempts[t]
               ELSE pc'[t] \in {"backoff", "rate_wait", "in_flight"}]_vars

C2_Witness ==
    \E t \in Tasks :
        /\ pc[t] = "done" /\ terminal[t] = "exhausted"
        /\ config.max_retries = 2 /\ attempts[t] = 3

\* C4: budget wait law (B >= 1). An attempt whose budget check finds B or more entries
\* inside the window is suspended, without being recorded, until
\* oldest + W, that is for W - (now - oldest) > 0, and it is recorded and sent
\* only once that time has come.
C4_BudgetWaitLaw ==
    [][\A t \in Tasks :
        /\ (StartsAttempt(t) /\ config.rate_limit_requests >= 1
            /\ Cardinality(InWindow) >= config.rate_limit_requests)
           => /\ pc'[t] = "rate_wait"
              /\ attempts'[t] = attempts[t]
              /\ wake_at'[t] - now = config.rate_limit_window - (now - OldestInWindow)
              /\ wake_at'[t] > now
              /\ request_times' = WindowEntries
        /\ (pc[t] = "rate_wait" /\ pc'[t] # "rate_wait")
           => now >= wake_at[t] /\ Sends(t)]_vars

C4_Witness ==
    \E t \in Tasks :
        /\ pc[t] = "in_flight" /\ retry_count[t] = 0 /\ attempts[t] = 1
        /\ config.rate_limit_requests = 2
        /\ Len(request_times) = 3
        /\ request_times[3] >= request_times[1] + config.rate_limit_window

C6_TimeoutBacksOff ==
    [][\A t \in Tasks :
        (Resumes(t) /\ response[t].body \in {"TimeoutError", "ClientError"}
         /\ retry_count[t] < config.max_retries)
        => /\ pc'[t] = "backoff"
           /\ wake_at'[t] = now + config.retry_delay_base * (2 ^ retry_count[t])]_vars

\* C7 as claimed: every step in which a frame records and sends either ends its
\* rate-limit wait, or prunes the ledger in that step and finds fewer than B
\* entries in the window; a frame meets the wait only from a prune and a check that
\* found the budget exhausted. Retries are no exception.
C7_EveryAttemptWaitsWhenExhausted ==
    [][\A t \in Tasks :
        /\ Sends(t) =>
            \/ pc[t] = "rate_wait" /\ now >= wake_at[t]
            \/ /\ StartsAttempt(t)
               /\ Cardinality(InWindow) < config.rate_limit_requests
               /\ request_times' = Append(WindowEntries, now)
        /\ (pc'[t] = "rate_wait" /\ pc[t] # "rate_wait") =>
            /\ StartsAttempt(t)
            /\ Cardinality(InWindow) >= config.rate_limit_requests
            /\ request_times' = WindowEntries]_vars

\* C7 as amended: the same, except that an attempt whose check finds the budget
\* exhausted while the pruned ledger is empty (only with B = 0) is sent without a
\* wait.
C7_EveryAttemptChecked ==
    [][\A t \in Tasks :
        /\ Sends(t) =>
            \/ pc[t] = "rate_wait" /\ now >= wake_at[t]
            \/ /\ StartsAttempt(t)
               /\ \/ Cardinality(InWindow) < config.rate_limit_requests
                  \/ InWindow = {} /\ config.rate_limit_requests = 0
               /\ request_times' = Append(WindowEntries, now)
        /\ (pc'[t] = "rate_wait" /\ pc[t] # "rate_wait") =>
            /\ StartsAttempt(t)
            /\ Cardinality(InWindow) >= config.rate_limit_requests
            /\ request_times' = WindowEntries
        /\ (StartsAttempt(t) /\ InWindow # {}
            /\ Cardinality(InWindow) >= config.rate_limit_requests)
           => pc'[t] = "rate_wait"]_vars

C7_Witness ==
    \E t \in Tasks :
        /\ pc[t] = "rate_wait" /\ retry_count[t] >= 1
        /\ config.rate_limit_requests >= 1

C9_FailureValuesDistinct ==
    \A t, u \in Tasks :
        (pc[t] = "done" /\ terminal[t] = "success"
         /\ pc[u] = "done" /\ terminal[u] \in {"exhausted", "malformed"})
        => result[t] # result[u]

\* C10: a 200 answer without usable reply (no choices, empty choices, a first
\* choice without message.content) ends the call at once, with no further attempt
\* and with a value other than those of timeout and rate-limit exhaustion.
C10_MalformedIsTerminal ==
    [][\A t \in Tasks :
        (Resumes(t) /\ response[t].status = 200
         /\ response[t].body \in {"no_choices", "empty_choices", "no_message"})
        => /\ pc'[t] = "done"
           /\ attempts'[t] = attempts[t]
           /\ result'[t] \notin {PyStr(TimedOutMessage), PyStr(RateLimitedMessage)}]_vars

\* The HTTP call of task t ended in a retryable failure: 429, another non-200
\* status, the deadline or a transport error.
RetryableFailure(t) ==
    \/ response[t].status \in {429, 500}
    \/ response[t].body \in {"TimeoutError", "ClientError"}

\* C13: the ledger counts attempts. Every step in which a frame reaches the HTTP
\* call appends exactly one entry, the current time, to the ledger (pruned in the
\* same step or not), the ledger gets an entry in no other step, and no outcome of
\* the call takes the entry back.
C13_LedgerCountsAttempts ==
    [][(\A t \in Tasks :
            /\ (pc'[t] = "in_flight" /\ pc[t] # "in_flight") <=> Sends(t)
            /\ Sends(t) =>
                 /\ request_times' \in {Append(request_times, now), Append(WindowEntries, now)}
                 /\ pc'[t] = "in_flight"
            /\ ((pc[t] = "in_flight" /\ pc'[t] # "in_flight")
                \/ (Resumes(t) /\ ~Sends(t) /\ pc'[t] # "rate_wait"))
                 => request_times' = request_times)
       /\ ((\A u \in Tasks : ~Sends(u)) => request_times' \in {request_times, WindowEntries})
      ]_vars

C13_Witness ==
    \E t \in Tasks :
        /\ pc[t] = "done" /\ terminal[t] = "success" /\ attempts[t] = 2
        /\ \A u \in Tasks \ {t} : pc[u] = "idle"
        /\ Len(request_times) = 2

\* C14 as claimed: a step that records an entry and leaves more than B entries in
\* the ledger is the step of a caller that ends its rate-limit wait; an attempt
\* that records straight from its budget check leaves at most B entries.
C14_ExcessOnlyAfterWait ==
    [][\A t \in Tasks :
        (Sends(t) /\ Len(request_times') > config.rate_limit_requests)
        => pc[t] = "rate_wait" /\ now >= wake_at[t]]_vars

\* C14 as amended: the same for B >= 1.
C14_ExcessOnlyAfterWaitPositiveBudget ==
    [][\A t \in Tasks :
        (Sends(t) /\ Len(request_times') > config.rate_limit_requests
         /\ config.rate_limit_requests >= 1)
        => pc[t] = "rate_wait" /\ now >= wake_at[t]]_vars

C14_Witness ==
    \E t \in Tasks :
        /\ pc[t] = "in_flight" /\ config.rate_limit_requests >= 1
        /\ Len(request_times) > config.rate_limit_requests
        /\ request_times[Len(request_times)] = now

\* C15 as claimed: a frame with retry_count n whose attempt ends in a retryable
\* failure goes on to another attempt exactly when n + 1 < max_retries, and
\* otherwise returns the terminal failure.
C15_RetryWhileNextBelowMax ==
    [][\A t \in Tasks :
        (Resumes(t) /\ RetryableFailure(t))
        => IF retry_count[t] + 1 < config.max_retries
           THEN pc'[t] \in {"backoff", "rate_wait", "in_flight"}
           ELSE pc'[t] = "done" /\ terminal'[t] = "exhausted"]_vars

\* C15 as amended: the frame goes on to another attempt exactly when
\* n < max_retries.
C15_RetryWhileBelowMax ==
    [][\A t \in Tasks :
        (Resumes(t) /\ RetryableFailure(t))
        => IF retry_count[t] < config.max_retries
           THEN pc'[t] \in {"backoff", "rate_wait", "in_flight"}
           ELSE pc'[t] = "done" /\ terminal'[t] = "exhausted"]_vars

C15_Witness ==
    \E t \in Tasks :
        /\ retry_count[t] = config.max_retries /\ config.max_retries >= 1
        /\ pc[t] = "in_flight"

\* The text s without the whitespace at its two ends, said without strip():
\* a stretch of s that neither starts nor ends with whitespace and leaves only
\* whitespace outside.
IsTrimmed(r, s) ==
    \E i \in 1..(Len(s) + 1), j \in 0..Len(s) :
        /\ r = SubSeq(s, i, j)
        /\ \A k \in 1..Len(s) : (k < i \/ k > j) => IsSpace(s[k])
        /\ r = <<>> \/ (~IsSpace(r[1]) /\ ~IsSpace(r[Len(r)]))

\* C16: a frame whose HTTP call ends with status 200 and a reply returns the reply
\* without its surrounding whitespace, at the first attempt as after failed ones;
\* the call is then over: no further attempt of it, and no ledger entry in that
\* step.
C16_SuccessIsTerminal ==
    [][\A t \in Tasks :
        /\ (Resumes(t) /\ response[t].status = 200 /\ response[t].body = "content")
           => /\ pc'[t] = "done" /\ terminal'[t] = "success"
              /\ ~result'[t].none /\ IsTrimmed(result'[t].text, response[t].text)
              /\ attempts'[t] = attempts[t]
              /\ request_times' = request_times
        /\ pc[t] = "done"
           => /\ pc'[t] = "done" /\ attempts'[t] = attempts[t]
              /\ result'[t] = result[t]]_vars

C16_Witness ==
    \E t \in Tasks :
        /\ pc[t] = "done" /\ terminal[t] = "success" /\ attempts[t] = 3
        /\ result[t] = PyStr(<<"hello">>)

\* C11: idempotent system-prompt insertion. The list a frame sends (the value of
\* messages when it records and sends) starts with a system turn; at the first
\* attempt it is the caller's list itself when that starts with a system turn, and
\* the caller's list behind one default system turn otherwise; at every retry it is
\* the list the attempt before sent. No other step changes the list.
C11_SystemPromptOnce ==
    [][\A t \in Tasks :
        /\ Sends(t) =>
            /\ messages'[t] # <<>> /\ messages'[t][1].role = "system"
            /\ attempts[t] = 0 =>
                 IF messages[t] # <<>> /\ messages[t][1].role = "system"
                 THEN messages'[t] = messages[t]
                 ELSE /\ Len(messages'[t]) = Len(messages[t]) + 1
                      /\ messages'[t][1] = DefaultSystemTurn
                      /\ Tail(messages'[t]) = messages[t]
            /\ attempts[t] >= 1 => messages'[t] = messages[t]
        /\ ~Sends(t) => messages'[t] = messages[t]]_vars

C11_Witness ==
    \E t \in Tasks :
        /\ attempts[t] = 2 /\ pc[t] = "in_flight"
        /\ messages[t] = <<DefaultSystemTurn, [role |-> "user", content |-> <<"hi">>],
                            [role |-> "system", content |-> <<"yo">>]>>

\* ===================================================================
\* Properties of the conversation store
\* ===================================================================

\* The handler of task t adds the completion to the history in this step.
Replies(t) == conv[t].stage = "asked" /\ conv'[t].stage = "replied" /\ Truthy(result[t])

\* C12: in a channel and in a DM alike, once the handler has added the reply the
\* context of the key it had read, the key of the user turn, ends with the
\* assistant turn that carries the reply.
C12_ReplyUnderContextKey ==
    [][\A t \in Tasks :
        Replies(t) =>
            LET after == Context(ContextKey(conv[t]))' IN
            /\ after # <<>>
            /\ after[Len(after)] = [role |-> "assistant", content |-> result[t].text]]_vars

\* C17: the list context(key) returned is a snapshot. While a handler holds it,
\* it changes only by the insertion of the system turn at its head, in a step in
\* which its own frame sends, whatever is appended to the key meanwhile; and the
\* log of every key changes only by the push of a turn appended to that key, never
\* by that insertion, so a later context(key) shows no system turn of the client.
C17_ContextIsSnapshot ==
    [][/\ \A t \in Tasks :
            (conv[t].stage = "asked" /\ messages'[t] # messages[t]) =>
                /\ Sends(t)
                /\ messages'[t] = <<DefaultSystemTurn>> \o messages[t]
       /\ \A k \in Keys :
            \/ Context(k)' = Context(k)
            \/ /\ Len(appended'[k]) = Len(appended[k]) + 1
               /\ Context(k)' =
                    Push(Context(k), appended'[k][Len(appended'[k])], max_history)
      ]_vars

C17_Witness ==
    \E t, u \in Tasks :
        /\ t # u /\ conv[t].stage = "asked" /\ conv[u].stage = "asked"
        /\ ContextKey(conv[t]) = ContextKey(conv[u])
        /\ attempts[t] >= 1 /\ pc[u] = "rate_wait"
        /\ messages[t] = <<DefaultSystemTurn, [role |-> "user", content |-> <<"hi">>]>>
        /\ Len(Context(ContextKey(conv[t]))) = 2
        /\ Context(ContextKey(conv[t]))[1].role = "user"

\* The store holds a log for key k.
Tracked(k) == k[2] \in DOMAIN Histories(k)
\* stats().keys
KeyCount == Stats.total_channels + Stats.total_users
\* stats().totalTurns
TurnCount == Stats.total_channel_messages + Stats.total_user_messages

\* C18: context is read-only. A call of context(key) leaves both dictionaries as
\* they are, so the key count and the turn count of stats() are the same before
\* and after, and returns the empty sequence for a key without log; a call of
\* stats() returns the counts and changes nothing either.
C18_ContextIsReadOnly ==
    [][\A k \in Keys \cup {NoKey} :
        /\ (returned'.op = "context" /\ returned'.key = k) =>
            /\ channel_histories' = channel_histories
            /\ user_histories' = user_histories
            /\ KeyCount' = KeyCount /\ TurnCount' = TurnCount
            /\ ~Tracked(k) => returned'.value = <<>>
        /\ (returned'.op = "stats" /\ returned'.key = k) =>
            /\ channel_histories' = channel_histories
            /\ user_histories' = user_histories
            /\ returned'.value = Stats]_vars

C18_Witness ==
    /\ returned.op = "context" /\ returned.value = <<>>
    /\ ~Tracked(returned.key)
    /\ KeyCount = 2 /\ TurnCount = 3

\* C19: no cross-key interference. A call of append(key, ...) pushes the turn on
\* the log of that key and leaves every other key as it was, with or without log,
\* the key of the other kind with the same id included.
C19_AppendTouchesOneKey ==
    [][\A k \in Keys :
        (returned'.op = "append" /\ returned'.key = k) =>
            /\ Context(k)' = Push(Context(k), appended'[k][Len(appended'[k])], max_history)
            /\ \A j \in Keys \ {k} :
                 Context(j)' = Context(j) /\ (Tracked(j)' <=> Tracked(j))]_vars

C19_Witness ==
    /\ returned.op = "append" /\ returned.key = <<"channel", "id1">>
    /\ Tracked(<<"user", "id1">>)
    /\ Context(<<"user", "id1">>) # Context(<<"channel", "id1">>)
    /\ ~Tracked(<<"channel", "id2">>)

\* C20: clear(key) removes the log of that key only. After the call context(key)
\* is empty and the key is not among the keys stats() counts, every other key is
\* as it was, and a call for a key without log changes nothing; a key without log
\* gets one only by an append to it.
C20_ClearRemovesOneKey ==
    [][\A k \in Keys :
        /\ (returned'.op = "clear" /\ returned'.key = k) =>
            /\ Context(k)' = <<>> /\ ~Tracked(k)'
            /\ KeyCount' = KeyCount - (IF Tracked(k) THEN 1 ELSE 0)
            /\ \A j \in Keys \ {k} :
                 Context(j)' = Context(j) /\ (Tracked(j)' <=> Tracked(j))
            /\ ~Tracked(k) =>
                 /\ channel_histories' = channel_histories
                 /\ user_histories' = user_histories
        /\ (~Tracked(k) /\ Tracked(k)') => (returned'.op = "append" /\ returned'.key = k)
      ]_vars

C20_Witness ==
    /\ returned.op = "clear" /\ returned.key = <<"user", "id1">>
    /\ appended[<<"user", "id1">>] = <<>>
    /\ Len(Context(<<"channel", "id1">>)) = 2
    /\ KeyCount = 1

\* The last n elements of a sequence.
LastN(seq, n) == SubSeq(seq, Len(seq) - n + 1, Len(seq))
Min2(a, b) == IF a < b THEN a ELSE b

\* C3: FIFO eviction law. For every key, context(key) is the last
\* min(n, maxTurns) of the n turns appended to it, in call order, whatever their
\* roles; the log never holds more than maxTurns turns.
C3_FifoEviction ==
    \A k \in Keys :
        /\ Len(Context(k)) <= max_history
        /\ Context(k) = LastN(appended[k], Min2(Len(appended[k]), max_history))

C3_Witness ==
    \E k \in Keys :
        /\ Len(appended[k]) = 3 /\ max_history = 2
        /\ appended[k][1].role = "system"
        /\ Context(k) = <<appended[k][2], appended[k][3]>>

\* ===================================================================
\* Cancellation, termination, commands and sessions
\* ===================================================================

\* C21: a caller cancelled in the rate-limit wait or in a backoff delay leaves the
\* ledger, its count of attempts and every conversation log as they were, and no
\* attempt of it is recorded afterwards; a frame leaves a sleep that is not yet
\* due only by being cancelled.
C21_CancelRecordsNothing ==
    [][\A t \in Tasks :
        /\ (pc[t] \in {"rate_wait", "backoff"} /\ pc'[t] # pc[t] /\ now < wake_at[t])
           => pc'[t] = "cancelled"
        /\ (pc[t] \in {"rate_wait", "backoff"} /\ pc'[t] = "cancelled")
           => /\ request_times' = request_times
              /\ attempts'[t] = attempts[t]
              /\ channel_histories' = channel_histories
              /\ user_histories' = user_histories
        /\ pc[t] = "cancelled" => (pc'[t] = "cancelled" /\ attempts'[t] = attempts[t])
      ]_vars

C21_Witness ==
    \E t, u \in Tasks :
        /\ pc[t] = "cancelled" /\ attempts[t] = 1 /\ retry_count[t] = 0 /\ now < wake_at[t]
        /\ pc[u] = "cancelled" /\ attempts[u] = 0 /\ now < wake_at[u]
        /\ Len(request_times) = 1
        /\ Context(ContextKey(conv[t])) # <<>>

\* C22: every call ends. Once made, a call of generate_response comes to return a
\* completion or a terminal failure; the retry_count of its frames goes up by one
\* at every retry and never passes max_retries, so a call is never more than
\* max_retries + 1 frames deep and makes at most max_retries + 1 attempts.
C22_EveryCallEnds ==
    /\ \A t \in Tasks : (pc[t] # "idle") ~> (pc[t] = "done" /\ terminal[t] # "none")
    /\ [](\A t \in Tasks :
            retry_count[t] <= config.max_retries /\ attempts[t] <= config.max_retries + 1)
    /\ [][\A t \in Tasks :
            /\ (StartsAttempt(t) /\ pc[t] # "idle")
               => retry_count'[t] = retry_count[t] + 1
            /\ pc[t] \notin {"idle", "done"} => retry_count'[t] \in {0, retry_count[t], retry_count[t] + 1}
            /\ pc[t] = "done" => pc'[t] = "done"]_vars

C22_Witness ==
    \E t, u \in Tasks :
        /\ pc[t] = "done" /\ terminal[t] = "exhausted"
        /\ attempts[t] = config.max_retries + 1 /\ config.max_retries >= 1
        /\ pc[u] = "done" /\ terminal[u] = "malformed" /\ attempts[u] = 2

\* C24: only a completion becomes an assistant turn. When the call of a chat
\* handler ended in a terminal failure (retries exhausted, or a malformed
\* payload), the handler's step after the call leaves every log as it was.
C24_NoTurnOnFailure ==
    [][\A t \in Tasks :
        (conv[t].stage = "asked" /\ conv'[t].stage = "replied" /\ terminal[t] # "success")
        => /\ channel_histories' = channel_histories
           /\ user_histories' = user_histories]_vars

\* The handler of task t adds the user turn, reads the context and calls
\* generate_response in this step.
Asks(t) == conv[t].stage = "none" /\ conv'[t].stage = "asked"

\* C26: the context a chat handler passes to its completion call ends with the
\* user turn the handler has just added (the newest turn appended to the key it
\* reads), whatever other handlers do on the same key; and the list still ends
\* with that turn whenever a frame of the call sends it.
C26_ContextEndsWithUserTurn ==
    [][\A t \in Tasks :
        /\ Asks(t) =>
            LET k == ContextKey(conv'[t])
                list == messages'[t]
            IN  /\ list # <<>>
                /\ list[Len(list)].role = "user"
                /\ list[Len(list)] = appended'[k][Len(appended'[k])]
                /\ Len(appended'[k]) = Len(appended[k]) + 1
        /\ (Sends(t) /\ conv'[t].stage = "asked") =>
            /\ messages'[t][Len(messages'[t])].role = "user"
            /\ Asks(t) \/ messages'[t][Len(messages'[t])] = messages[t][Len(messages[t])]
      ]_vars

C26_Witness ==
    \E t, u \in Tasks :
        /\ t # u /\ conv[t].stage = "replied" /\ Truthy(result[t])
        /\ conv[u].stage = "asked" /\ ~conv[u].dm /\ conv[u].channel = conv[t].channel
        /\ pc[u] = "in_flight"
        /\ Len(messages[u]) = 3
        /\ messages[u][2].role = "assistant" /\ messages[u][3].role = "user"

\* C27: once close() has closed the HTTP session the client holds no open session
\* again, whatever a call was doing at that moment, and every attempt is sent on
\* an open session.
C27_NoSessionAfterClose ==
    /\ [](closed # "running" => session # "open")
    /\ [][\A t \in Tasks : Sends(t) => session' = "open"]_vars

\* C28: a call holds at most one HTTP response at any time, and none while it
\* sleeps a backoff, waits for the rate limit or has its next attempt in flight:
\* the response of a failed attempt is released before the sleep and the retry.
C28_OneResponseHeld ==
    \A t \in Tasks :
        /\ held[t] <= 1
        /\ pc[t] \in {"backoff", "rate_wait", "in_flight"} => held[t] = 0


\* ------------------------------------------- messages and admin commands
\* process_commands invokes the command cmd for the message of task t.
Runs(t, cmd) == message[t].stage = "none" /\ message'[t].command = cmd

\* C23: once the clearall command has run and was not refused, the context of
\* every channel key and of every user key is the empty sequence, and stats
\* reports zero keys and zero turns.
C23_ClearAllEmptiesEveryLog ==
    [][\A t \in Tasks :
          Runs(t, "clearall") /\ message'[t].reply # "refusal" =>
              /\ \A k \in Keys : Context(k)' = <<>>
              /\ Stats'.total_channels = 0 /\ Stats'.total_users = 0
              /\ Stats'.total_channel_messages = 0
              /\ Stats'.total_user_messages = 0]_vars


adminState ==
    <<chat_channel_id, channels, command_prefix, channel_histories, user_histories, closed,
      session>>

\* on_message goes on for the message of task t once its admin command is over.
Leaves(t) ==
    /\ message[t].command \in AdminNames
    /\ message[t].stage = "command" /\ message'[t].stage # "command"

\* C29: an admin command invoked by a user who is not the admin changes no
\* state, and its only effect is the reply that refuses the command.
C29_NonAdminOnlyRefused ==
    [][\A t \in Tasks :
          /\ (\E cmd \in AdminNames : Runs(t, cmd)) =>
                 /\ adminState' = adminState
                 /\ message'[t].reply = "refusal"
          /\ Leaves(t) => adminState' = adminState]_vars

\* on_message is called with the message of task t.
Receives(t) == message[t].stage = "none" /\ message'[t].stage # "none"

\* A call of generate_response begins for task t.
Calls(t) == pc[t] = "idle" /\ pc'[t] # "idle"

\* C30: the message of a bot, the bot itself included, is dispatched to no
\* command, appends nothing to any log and starts no completion call; the message
\* of a user starts a completion call only when its command is dispatched, so at
\* most one, sent once.
C30_BotMessagesIgnored ==
    [][\A t \in Tasks :
          /\ (Receives(t) /\ message'[t].author = BotId) =>
                 /\ message'[t].stage = "ended"
                 /\ ~message'[t].dispatched /\ message'[t].command = "none"
                 /\ channel_histories' = channel_histories
                 /\ user_histories' = user_histories
                 /\ ~Calls(t) /\ attempts' = attempts
          /\ Calls(t) => Receives(t) /\ message'[t].command \in {"ask", "chat"}
          /\ attempts'[t] <= 1]_vars

\* on_message has returned for a message of the bot, and the message of a user
\* has started a completion call.
C30_Witness ==
    \E t, u \in Tasks :
        /\ message[t].author = BotId /\ message[t].stage = "ended"
        /\ message[t].content = <<"!", "chat", "hi">>
        /\ message[u].author \in Ids /\ attempts[u] = 1


\* ------------------------------------------- routing and the two commands
\* on_message gets past process_commands for the message of task t.
Routes(t) ==
    /\ message[t].stage \in {"none", "command"}
    /\ message'[t].stage \in {"chat", "ended"}

\* C31: the message of a user that is no command is handled as a chat message
\* exactly when it is a DM, or a chat channel is configured and the message is
\* in that channel, or no chat channel is configured and the bot is mentioned.
C31_ChatRouting ==
    [][\A t \in Tasks :
          (/\ Routes(t)
           /\ message'[t].author \in Ids
           /\ ~StartsWith(message'[t].content, command_prefix)) =>
              (message'[t].stage = "chat" <=>
                  \/ message'[t].dm
                  \/ chat_channel_id # "none" /\ message'[t].channel = chat_channel_id
                  \/ chat_channel_id = "none" /\ message'[t].mentions)]_vars

\* With a chat channel configured, a message that mentions the bot in another
\* channel was not answered, and a message in the chat channel is handled as a
\* chat message.
C31_Witness ==
    \E t, u \in Tasks :
        /\ chat_channel_id # "none"
        /\ message[t].content = <<"hi">> /\ message[t].author \in Ids
        /\ ~message[t].dm /\ message[t].mentions
        /\ message[t].channel # chat_channel_id /\ message[t].stage = "ended"
        /\ message[u].content = <<"hi">> /\ message[u].author \in Ids
        /\ ~message[u].dm /\ message[u].channel = chat_channel_id
        /\ message[u].stage = "chat"


\* The step is one of the handler of task t.
StepOf(t) ==
    \/ message'[t] # message[t] \/ conv'[t] # conv[t]
    \/ pc'[t] # pc[t] \/ response'[t] # response[t]

\* The step appends an assistant turn to some log.
AppendsAssistantTurn ==
    \E k \in Keys :
        /\ Len(appended'[k]) = Len(appended[k]) + 1
        /\ appended'[k][Len(appended'[k])].role = "assistant"

\* C32: the ask command passes a list of its own and leaves every context and
\* the stats as they were, from its dispatch to its end; the chat command appends
\* the user turn when it is dispatched, before the call, and an assistant turn is
\* appended only by a chat command whose response is not empty, and is that
\* response.
C32_AskLeavesLogsChatAppends ==
    [][/\ \A t \in Tasks :
            /\ (StepOf(t) /\ (Runs(t, "ask") \/ message[t].command = "ask")) =>
                   /\ \A k \in Keys : Context(k)' = Context(k)
                   /\ Stats' = Stats
                   /\ aliased'[t] = NoKey
                   /\ Runs(t, "ask") =>
                          messages'[t] =
                              AskMessages(Arguments(message'[t].content, command_prefix))
            /\ Runs(t, "chat") =>
                   LET turn == [role |-> "user",
                                content |-> Arguments(message'[t].content, command_prefix)]
                   IN  /\ attempts[t] = 0
                       /\ \A k \in {<<"channel", message'[t].channel>>,
                                    <<"user", message'[t].author>>} :
                              appended'[k] = Append(appended[k], turn)
            /\ (StepOf(t) /\ message[t].command = "chat" /\ pc[t] = "done"
                /\ (result[t].none \/ result[t].text = <<>>)) =>
                   ~AppendsAssistantTurn
       /\ AppendsAssistantTurn =>
            \E t \in Tasks :
                /\ message[t].command = "chat" /\ pc[t] = "done" /\ StepOf(t)
                /\ ~result[t].none /\ result[t].text # <<>>
                /\ \A k \in Keys :
                       Len(appended'[k]) > Len(appended[k]) =>
                           appended'[k][Len(appended'[k])].content = result[t].text]_vars

\* An ask command has ended while the logs held turns, and a chat command has
\* stored its reply.
C32_Witness ==
    \E t, u \in Tasks :
        /\ message[t].command = "ask" /\ message[t].stage = "ended"
        /\ message[u].command = "chat" /\ conv[u].stage = "replied"
        /\ ~result[u].none /\ result[u].text # <<>>
        /\ \E k \in Keys : Len(appended[k]) = 2

\* ------------------------------------------- chunks and games
\* C33: a response longer than 2000 characters is sent as consecutive chunks of 1
\* to 2000 characters each that, put together in the order sent, are the
\* response; a shorter one is sent as one message; and the log gets the whole
\* response as one assistant turn.
C33_ChunksRebuildResponse ==
    [][\A t \in Tasks :
          LET o == outbox'[t]
              n == Len(o.sent)
              k == <<"channel", outbox[t].channel>>
          IN  /\ \A i \in 1..n :
                     /\ o.sent[i].hi - o.sent[i].lo >= 1
                     /\ o.sent[i].hi - o.sent[i].lo <= ChunkSize
                     /\ o.sent[i].lo = IF i = 1 THEN 0 ELSE o.sent[i - 1].hi
              /\ o.phase \in {"sent", "done"} =>
                     /\ n >= 1 /\ o.sent[n].hi = o.len
                     /\ o.len <= ChunkSize <=> n = 1
              /\ (outbox[t].phase = "sent" /\ o.phase = "done") =>
                     /\ appended'[k] =
                           Append(appended[k],
                                  [role |-> "assistant",
                                   content |-> [lo |-> 0, hi |-> o.len]])
                     /\ Context(k)' =
                           Push(Context(k), [role |-> "assistant",
                                             content |-> [lo |-> 0, hi |-> o.len]],
                                max_history)]_vars

\* A chat command has sent a response of more than 2000 characters whose last
\* chunk is a short one, and has stored it.
C33_Witness ==
    \E t \in Tasks :
        /\ outbox[t].kind = "chat" /\ outbox[t].phase = "done"
        /\ outbox[t].len > ChunkSize /\ Len(outbox[t].sent) >= 2
        /\ outbox[t].sent[Len(outbox[t].sent)].hi
             - outbox[t].sent[Len(outbox[t].sent)].lo < ChunkSize


\* C34: the message a waiting mini-game took as its answer is not processed as a
\* chat turn as well: it is neither handled as a chat message nor dispatched to
\* the chat or ask command, so nothing of it is appended and no completion is
\* asked for.
C34_AnswerNotChat ==
    \A u, t \in Tasks :
        game[u].answered_by = t =>
            /\ message[t].stage \notin {"chat", "chat_failed"}
            /\ message[t].command \notin {"chat", "ask"}


\* C35: a number guessing game started with max_num in 10..1000 has
\* max_attempts = min(10, max_num div 10 + 3), evaluates at most that many
\* numbers, counts no other input as an attempt, never reports a negative number
\* of attempts left, and is over with exactly one final outcome.
C35_GuessGameBounded ==
    \A t \in Tasks :
        LET g == game[t] IN
        (g.kind = "guess" /\ g.phase # "refused") =>
            /\ g.max_num >= 10 /\ g.max_num <= 1000
            /\ g.max_attempts = IF g.max_num \div 10 + 3 <= 10
                                THEN g.max_num \div 10 + 3 ELSE 10
            /\ g.numeric <= g.max_attempts
            /\ g.attempts = g.numeric
            /\ g.remaining >= 0
            /\ g.remaining = g.max_attempts - g.attempts \/ g.finals = <<"win">>
            /\ Len(g.finals) <= 1
            /\ g.phase = "over" <=> Len(g.finals) = 1
            /\ \A i \in 1..Len(g.finals) : g.finals[i] \in {"win", "game_over", "times_up"}

\* A game of 10 attempts is over after 10 wrong numbers and a text that is no
\* number, with no attempt left; another was won, and a third ran out of time.
C35_Witness ==
    \E t, u \in Tasks :
        /\ game[t].kind = "guess" /\ game[t].finals = <<"game_over">>
        /\ game[t].max_num = 1000 /\ game[t].numeric = 10 /\ game[t].invalid = 1
        /\ game[t].remaining = 0
        /\ game[u].kind = "guess" /\ game[u].finals \in {<<"win">>, <<"times_up">>}
        /\ game[u].invalid = 1

====
